---- MODULE Spec2Model ----
(***************************************************************************)
(* A model of the Global Launch Estimates visual (src/src/visual.ts): the  *)
(* row decoder Visual.CONVERTER, the cohort classifier that                *)
(* renderWorldMap / renderRegionalMap run on a record list, the region     *)
(* resolution, the legends and the fill palette, and update, which calls   *)
(* them in turn.                                                           *)
(*                                                                         *)
(* JavaScript strings are modelled as sequences of UTF-16 code units, so   *)
(* that toString, toLowerCase and the default sort order are computed and  *)
(* not assumed.  null is the value Null, which is no string.               *)
(***************************************************************************)
EXTENDS Integers, Sequences, FiniteSets

VARIABLES
    pc,             \* position of the running operation
    dataView,       \* the data view handed to CONVERTER
    ti,             \* CONVERTER: column loop counter (visual.ts:869)
    index,          \* CONVERTER: _companyIndex .. _footerImageIndex, by role
    i,              \* CONVERTER: row loop counter (visual.ts:892)
    resultData,     \* CONVERTER: resultData
    hostCalls,      \* the host's log of selection-id builder calls
    mode,           \* which map is rendered: "world", "regional" or "usa"
    mapData,        \* the record list a render method receives
    distinctYears,  \* distinctYears of renderWorldMap / renderRegionalMap
    yearColorData,  \* this.yearColorData
    colorData,      \* the geo colour map handed to the map library
    fills,          \* the fill palette handed to the map library
    legend,         \* the legend entries rendered, in display order
    highlights,     \* the highlights panel of the regional view
    settings,       \* this.settings.locations
    currentYear,    \* the year the clock shows when update runs
    finalMapData,   \* update: finalMapData
    currentRegion,  \* update: currentRegion
    events,         \* the host's log of rendering events
    loads,          \* image loads begun by renderHeaderAndFooter
    viewport,       \* options.viewport of the update call
    updates,        \* the number of update calls begun
    header,         \* this.header: class, style and img children
    footer,         \* this.footer: class, style and img children
    headerImgHeight,\* this.headerImgHeight
    footerImgHeight,\* this.footerImgHeight
    targetStyle,    \* the style attribute of this.target
    clicks,         \* the clicks on map shapes and the URL each one launched
    error           \* "none", or the exception that ended the operation

vars == <<pc, dataView, ti, index, i, resultData, hostCalls,
          mode, mapData, distinctYears, yearColorData, colorData,
          fills, legend, highlights,
          settings, currentYear, finalMapData, currentRegion, events, loads,
          viewport, updates, header, footer, headerImgHeight, footerImgHeight,
          targetStyle, clicks,
          error>>

converterVars == <<dataView, ti, index, i, resultData, hostCalls>>
classifierVars == <<mode, mapData, distinctYears, yearColorData, colorData>>
renderVars == <<fills, legend, highlights>>
updateVars == <<settings, currentYear, finalMapData, currentRegion, events, loads>>
layoutVars == <<viewport, updates, header, footer, headerImgHeight, footerImgHeight,
                targetStyle>>

----------------------------------------------------------------------------
(* Bounds of the model.                                                    *)

MaxRows == 2
MaxRecords == 2

----------------------------------------------------------------------------
(* JavaScript values.                                                      *)

\* null as a record field: code units are >= 0, so this is no string.
Null == <<-1>>

\* A table cell (powerbi.PrimitiveValue), or undefined for a missing index.
StrCell(s)  == [k |-> "string",  s |-> s,    n |-> 0, b |-> FALSE]
NumCell(n)  == [k |-> "number",  s |-> <<>>, n |-> n, b |-> FALSE]
BoolCell(b) == [k |-> "boolean", s |-> <<>>, n |-> 0, b |-> b]
NullCell    == [k |-> "null",    s |-> <<>>, n |-> 0, b |-> FALSE]
Undefined   == [k |-> "undefined", s |-> <<>>, n |-> 0, b |-> FALSE]

\* ToBoolean of a cell, as the conditional operator of visual.ts:895 applies it.
Truthy(c) ==
    CASE c.k = "string"  -> c.s # <<>>
      [] c.k = "number"  -> c.n # 0
      [] c.k = "boolean" -> c.b
      [] OTHER           -> FALSE

RECURSIVE Digits(_)
Digits(n) == IF n < 10 THEN <<48 + n>> ELSE Digits(n \div 10) \o <<48 + (n % 10)>>

\* Number.prototype.toString for an integer.
NumberToString(n) == IF n < 0 THEN <<45>> \o Digits(-n) ELSE Digits(n)

\* value.toString() of a non-null cell.
ToString(c) ==
    CASE c.k = "string"  -> c.s
      [] c.k = "number"  -> NumberToString(c.n)
      [] c.k = "boolean" -> IF c.b THEN <<116, 114, 117, 101>>        \* "true"
                                   ELSE <<102, 97, 108, 115, 101>>    \* "false"

\* String.prototype.toLowerCase on Basic Latin text.
ToLowerCase(s) ==
    [j \in 1..Len(s) |-> IF s[j] >= 65 /\ s[j] <= 90 THEN s[j] + 32 ELSE s[j]]

\* row[k] for a 0-based (possibly -1) index k: undefined outside the row.
RowAt(row, k) == IF k + 1 \in DOMAIN row THEN row[k + 1] ELSE Undefined

----------------------------------------------------------------------------
(* Visual.CONVERTER (visual.ts:862-910).                                   *)

RoleOrder == <<"Company", "Region", "State", "Country", "DocumentLink",
               "Launch", "Color", "Highlights", "HeaderImage", "FooterImage">>

Roles == {RoleOrder[r] : r \in DOMAIN RoleOrder}

\* Faulty variant of InitialIndex: the indexes start at 0.
InitialIndexZero == [r \in Roles |-> 0]
\* let _companyIndex = -1, ... (visual.ts:867-868)
InitialIndex == [r \in Roles |-> -1]

\* Faulty variant of ColumnStep: every declared role is recorded, the first
\* column declaring it only.
AssignFirstOnly(idx, t, roles) ==
    [r \in Roles |-> IF r \in roles /\ idx[r] = -1 THEN t ELSE idx[r]]
\* The body of the column loop: the if / else-if chain of visual.ts:870-890.
ColumnStep(idx, t, roles) ==
    IF "Company" \in roles THEN [idx EXCEPT !["Company"] = t]
    ELSE IF "Region" \in roles THEN [idx EXCEPT !["Region"] = t]
    ELSE IF "State" \in roles THEN [idx EXCEPT !["State"] = t]
    ELSE IF "Country" \in roles THEN [idx EXCEPT !["Country"] = t]
    ELSE IF "DocumentLink" \in roles THEN [idx EXCEPT !["DocumentLink"] = t]
    ELSE IF "Launch" \in roles THEN [idx EXCEPT !["Launch"] = t]
    ELSE IF "Color" \in roles THEN [idx EXCEPT !["Color"] = t]
    ELSE IF "Highlights" \in roles THEN [idx EXCEPT !["Highlights"] = t]
    ELSE IF "HeaderImage" \in roles THEN [idx EXCEPT !["HeaderImage"] = t]
    ELSE IF "FooterImage" \in roles THEN [idx EXCEPT !["FooterImage"] = t]
    ELSE idx

\* row[_xIndex] ? row[_xIndex].toString() : null (visual.ts:895-904)
Field(row, k) ==
    LET c == RowAt(row, k) IN IF Truthy(c) THEN ToString(c) ELSE Null

\* host.createSelectionIdBuilder().withTable(tableView, i).createSelectionId():
\* the host answers every call with a fresh opaque handle.
HostHandle(calls) == [serial |-> Len(calls) + 1]

\* let dp = {...} (visual.ts:894-906)
MakeRecord(row, idx, id) ==
    [Company      |-> Field(row, idx["Company"]),
     Region       |-> Field(row, idx["Region"]),
     State        |-> Field(row, idx["State"]),
     Country      |-> Field(row, idx["Country"]),
     DocumentLink |-> Field(row, idx["DocumentLink"]),
     Launch       |-> Field(row, idx["Launch"]),
     Color        |-> Field(row, idx["Color"]),
     Highlights   |-> Field(row, idx["Highlights"]),
     HeaderImage  |-> Field(row, idx["HeaderImage"]),
     FooterImage  |-> Field(row, idx["FooterImage"]),
     selectionId  |-> id]

----------------------------------------------------------------------------
(* The data views CONVERTER is run on.                                     *)

France == <<70, 114, 97, 110, 99, 101>>     \* "France"

CellValues ==
    {NullCell, NumCell(0), NumCell(2025), BoolCell(FALSE), StrCell(<<>>),
     StrCell(France)}

Column(roles) == [hasRoles |-> TRUE, roles |-> roles]
\* DataViewMetadataColumn.roles is optional: a column without a role set.
ColumnWithoutRoles == [hasRoles |-> FALSE, roles |-> {}]

ColumnLayouts ==
    {<<>>,
     <<Column({})>>,
     <<Column({"Country"})>>,
     <<Column({"Region", "Country"})>>,
     <<ColumnWithoutRoles>>,
     <<Column({"Country"}), Column({"Launch"})>>,
     <<Column({"Country"}), Column({"Country"})>>}

TableRows(width) ==
    UNION {[1..n -> [1..width -> CellValues]] : n \in 0..MaxRows}

NoTable == [present |-> FALSE, columns |-> <<>>, rows |-> <<>>]

Tables ==
    {NoTable} \cup
    {[present |-> TRUE, columns |-> cols, rows |-> rows] :
        <<cols, rows>> \in UNION {{c} \X TableRows(Len(c)) : c \in ColumnLayouts}}

NoRecords == <<>>
NoColorData == [c \in {} |-> 0]

\* The values the fields of the visual hold while no update has run.
NoFills == [c \in {} |-> 0]
NoHighlights == [panel |-> FALSE, content |-> <<>>]
NoSettings ==
    [viewRegionalMap |-> FALSE, defaultRegion |-> Null, viewHighlights |-> FALSE,
     headerImage |-> FALSE, footerImage |-> FALSE]

\* The years the clock may show (new Date().getFullYear(), visual.ts:135).
ClockYears == {2025}

NoRender ==
    /\ fills = NoFills
    /\ legend = <<>>
    /\ highlights = NoHighlights

\* The layout after the constructor (visual.ts:106-108, 112-119): header,
\* target and footer are three empty div elements, children of the host's
\* element.
NoViewport == [height |-> 0, width |-> 0]
NoStyle == [kind |-> "none", px |-> 0]
EmptyElement == [class |-> FALSE, style |-> NoStyle, imgs |-> <<>>]
NoTargetStyle == [set |-> FALSE, height |-> 0, width |-> 0]

NoLayout ==
    /\ updates = 0
    /\ header = EmptyElement
    /\ footer = EmptyElement
    /\ headerImgHeight = 0
    /\ footerImgHeight = 0
    /\ targetStyle = NoTargetStyle

NoUpdate ==
    /\ settings = NoSettings
    /\ currentYear \in ClockYears
    /\ finalMapData = NoRecords
    /\ currentRegion = Null
    /\ events = <<>>
    /\ loads = <<>>
    /\ viewport = NoViewport
    /\ NoLayout
    /\ clicks = <<>>

ConverterInit ==
    /\ pc = "call"
    /\ dataView \in {[table |-> t] : t \in Tables}
    /\ ti = 0
    /\ index = InitialIndex
    /\ i = 0
    /\ resultData = <<>>
    /\ hostCalls = <<>>
    /\ mode = "world"
    /\ mapData = NoRecords
    /\ distinctYears = <<>>
    /\ yearColorData = <<>>
    /\ colorData = NoColorData
    /\ NoRender
    /\ NoUpdate
    /\ error = "none"

\* Faulty variant of ConverterEnter: an absent table is read as an empty one.
ConverterEnterTolerant ==
    /\ pc = "call"
    /\ pc' = "columns"
    /\ error' = error
    /\ ti' = 0
    /\ index' = InitialIndex
    /\ i' = 0
    /\ resultData' = <<>>
    /\ UNCHANGED <<dataView, hostCalls>>
    /\ UNCHANGED <<classifierVars, renderVars, updateVars, layoutVars, clicks>>
\* visual.ts:863-868: tableView.rows throws on an absent table.
ConverterEnter ==
    /\ pc = "call"
    /\ IF dataView.table.present
       THEN /\ pc' = "columns"
            /\ error' = error
       ELSE /\ pc' = "threw"
            /\ error' = "TypeError"
    /\ ti' = 0
    /\ index' = InitialIndex
    /\ i' = 0
    /\ resultData' = <<>>
    /\ UNCHANGED <<dataView, hostCalls>>
    /\ UNCHANGED <<classifierVars, renderVars, updateVars, layoutVars, clicks>>

\* visual.ts:869-891: one iteration of the column loop.
ConverterColumn ==
    /\ pc = "columns"
    /\ ti < Len(dataView.table.columns)
    /\ LET col == dataView.table.columns[ti + 1]
       IN  IF col.hasRoles
           THEN /\ index' = ColumnStep(index, ti, col.roles)
                /\ ti' = ti + 1
                /\ UNCHANGED <<pc, error>>
           ELSE /\ pc' = "threw"
                /\ error' = "TypeError"
                /\ UNCHANGED <<index, ti>>
    /\ UNCHANGED <<dataView, i, resultData, hostCalls>>
    /\ UNCHANGED <<classifierVars, renderVars, updateVars, layoutVars, clicks>>

\* visual.ts:869: the column loop ends.
ConverterColumnsDone ==
    /\ pc = "columns"
    /\ ti = Len(dataView.table.columns)
    /\ pc' = "rows"
    /\ UNCHANGED <<error>>
    /\ UNCHANGED converterVars
    /\ UNCHANGED <<classifierVars, renderVars, updateVars, layoutVars, clicks>>

\* Faulty variant of ConverterRow: the record is put in front of resultData.
ConverterRowPrepends ==
    /\ pc = "rows"
    /\ i < Len(dataView.table.rows)
    /\ LET id == HostHandle(hostCalls)
           dp == MakeRecord(dataView.table.rows[i + 1], index, id)
       IN  /\ hostCalls' = Append(hostCalls,
                                  [table |-> dataView.table, row |-> i, id |-> id])
           /\ resultData' = <<dp>> \o resultData
    /\ i' = i + 1
    /\ UNCHANGED <<pc, error, dataView, ti, index>>
    /\ UNCHANGED <<classifierVars, renderVars, updateVars, layoutVars, clicks>>
\* Faulty variant of ConverterRow: the builder is given row index 0.
ConverterRowFixedIndex ==
    /\ pc = "rows"
    /\ i < Len(dataView.table.rows)
    /\ LET id == HostHandle(hostCalls)
           dp == MakeRecord(dataView.table.rows[i + 1], index, id)
       IN  /\ hostCalls' = Append(hostCalls,
                                  [table |-> dataView.table, row |-> 0, id |-> id])
           /\ resultData' = Append(resultData, dp)
    /\ i' = i + 1
    /\ UNCHANGED <<pc, error, dataView, ti, index>>
    /\ UNCHANGED <<classifierVars, renderVars, updateVars, layoutVars, clicks>>
\* visual.ts:892-908: one iteration of the row loop.
ConverterRow ==
    /\ pc = "rows"
    /\ i < Len(dataView.table.rows)
    /\ LET id == HostHandle(hostCalls)
           dp == MakeRecord(dataView.table.rows[i + 1], index, id)
       IN  /\ hostCalls' = Append(hostCalls,
                                  [table |-> dataView.table, row |-> i, id |-> id])
           /\ resultData' = Append(resultData, dp)
    /\ i' = i + 1
    /\ UNCHANGED <<pc, error, dataView, ti, index>>
    /\ UNCHANGED <<classifierVars, renderVars, updateVars, layoutVars, clicks>>

\* visual.ts:909: return resultData.
ConverterReturn ==
    /\ pc = "rows"
    /\ i = Len(dataView.table.rows)
    /\ pc' = "returned"
    /\ UNCHANGED <<error>>
    /\ UNCHANGED converterVars
    /\ UNCHANGED <<classifierVars, renderVars, updateVars, layoutVars, clicks>>

ConverterNext ==
    \/ ConverterEnter
    \/ ConverterColumn
    \/ ConverterColumnsDone
    \/ ConverterRow
    \/ ConverterReturn

ConverterSpec == ConverterInit /\ [][ConverterNext]_vars

----------------------------------------------------------------------------
(* The cohort classifier: the distinct Launch values, the year -> colour   *)
(* list and the geo colour map (visual.ts:459-509).                        *)

\* getUSAStateCodes (visual.ts:282-373)
USAStateCodes ==
    <<
       [state |-> <<65, 114, 105, 122, 111, 110, 97>>, code |-> <<65, 90>>],  \* 'Arizona', 'AZ'
       [state |-> <<70, 108, 111, 114, 105, 100, 97>>, code |-> <<70, 76>>],  \* 'Florida', 'FL'
       [state |-> <<71, 101, 111, 114, 103, 105, 97>>, code |-> <<71, 65>>],  \* 'Georgia', 'GA'
       [state |-> <<73, 108, 108, 105, 110, 111, 105, 115>>, code |-> <<73, 76>>],  \* 'Illinois', 'IL'
       [state |-> <<76, 111, 115, 32, 65, 110, 103, 101, 108, 101, 115>>, code |-> <<76, 65>>],  \* 'Los Angeles', 'LA'
       [state |-> <<77, 97, 114, 121, 108, 97, 110, 100>>, code |-> <<77, 68>>],  \* 'Maryland', 'MD'
       [state |-> <<77, 97, 105, 110, 101>>, code |-> <<77, 69>>],  \* 'Maine', 'ME'
       [state |-> <<77, 105, 115, 115, 111, 117, 114, 105>>, code |-> <<77, 79>>],  \* 'Missouri', 'MO'
       [state |-> <<78, 111, 114, 116, 104, 32, 67, 97, 114, 111, 108, 105, 110, 97>>, code |-> <<78, 67>>],  \* 'North Carolina', 'NC'
       [state |-> <<78, 101, 98, 114, 97, 115, 107, 97>>, code |-> <<78, 69>>],  \* 'Nebraska', 'NE'
       [state |-> <<78, 101, 118, 97, 100, 97>>, code |-> <<78, 86>>],  \* 'Nevada', 'NV'
       [state |-> <<78, 101, 119, 32, 74, 101, 114, 115, 101, 121>>, code |-> <<78, 74>>],  \* 'New Jersey', 'NJ'
       [state |-> <<78, 101, 119, 32, 89, 111, 114, 107>>, code |-> <<78, 89>>],  \* 'New York', 'NY'
       [state |-> <<79, 104, 105, 111>>, code |-> <<79, 72>>],  \* 'Ohio', 'OH'
       [state |-> <<79, 107, 108, 97, 104, 111, 109, 97>>, code |-> <<79, 75>>],  \* 'Oklahoma', 'OK'
       [state |-> <<80, 101, 110, 110, 115, 121, 108, 118, 97, 110, 105, 97>>, code |-> <<80, 65>>],  \* 'Pennsylvania', 'PA'
       [state |-> <<83, 111, 117, 116, 104, 32, 67, 97, 114, 111, 108, 105, 110, 97>>, code |-> <<83, 67>>],  \* 'South Carolina', 'SC'
       [state |-> <<83, 111, 117, 116, 104, 32, 68, 97, 107, 111, 116, 97>>, code |-> <<83, 68>>],  \* 'South Dakota', 'SD'
       [state |-> <<84, 101, 110, 110, 101, 115, 115, 101, 101>>, code |-> <<84, 78>>],  \* 'Tennessee', 'TN'
       [state |-> <<84, 101, 120, 97, 115>>, code |-> <<84, 88>>],  \* 'Texas', 'TX'
       [state |-> <<85, 116, 97, 104>>, code |-> <<85, 84>>],  \* 'Utah', 'UT'
       [state |-> <<87, 105, 115, 99, 111, 110, 115, 105, 110>>, code |-> <<87, 73>>],  \* 'Wisconsin', 'WI'
       [state |-> <<86, 105, 114, 103, 105, 110, 105, 97>>, code |-> <<86, 65>>],  \* 'Virginia', 'VA'
       [state |-> <<87, 97, 115, 104, 105, 110, 103, 116, 111, 110>>, code |-> <<87, 65>>],  \* 'Washington', 'WA'
       [state |-> <<67, 97, 108, 105, 102, 111, 114, 110, 105, 97>>, code |-> <<67, 65>>],  \* 'California', 'CA'
       [state |-> <<67, 111, 110, 110, 101, 99, 116, 105, 99, 117, 116>>, code |-> <<67, 84>>],  \* 'Connecticut', 'CT'
       [state |-> <<65, 108, 97, 115, 107, 97>>, code |-> <<65, 75>>],  \* 'Alaska', 'AK'
       [state |-> <<65, 114, 107, 97, 110, 115, 97, 115>>, code |-> <<65, 82>>],  \* 'Arkansas', 'AR'
       [state |-> <<65, 108, 97, 98, 97, 109, 97>>, code |-> <<65, 76>>]   \* 'Alabama', 'AL'
    >>

\* getCountryCodes (visual.ts:375-457)
CountryCodes ==
    <<
       [country |-> <<70, 114, 97, 110, 99, 101>>, code |-> <<70, 82, 65>>],  \* 'France', 'FRA'
       [country |-> <<71, 101, 114, 109, 97, 110, 121>>, code |-> <<68, 69, 85>>],  \* 'Germany', 'DEU'
       [country |-> <<73, 116, 97, 108, 121>>, code |-> <<73, 84, 65>>],  \* 'Italy', 'ITA'
       [country |-> <<83, 112, 97, 105, 110>>, code |-> <<69, 83, 80>>],  \* 'Spain', 'ESP'
       [country |-> <<85, 110, 105, 116, 101, 100, 32, 75, 105, 110, 103, 100, 111, 109>>, code |-> <<71, 66, 82>>],  \* 'United Kingdom', 'GBR'
       [country |-> <<85, 83, 65>>, code |-> <<85, 83, 65>>],  \* 'USA', 'USA'
       [country |-> <<73, 110, 100, 105, 97>>, code |-> <<73, 78, 68>>],  \* 'India', 'IND'
       [country |-> <<74, 97, 112, 97, 110>>, code |-> <<74, 80, 78>>],  \* 'Japan', 'JPN'
       [country |-> <<67, 97, 110, 97, 100, 97>>, code |-> <<67, 65, 78>>],  \* 'Canada', 'CAN'
       [country |-> <<82, 117, 115, 115, 105, 97>>, code |-> <<82, 85, 83>>],  \* 'Russia', 'RUS'
       [country |-> <<65, 117, 115, 116, 114, 97, 108, 105, 97>>, code |-> <<65, 85, 83>>],  \* 'Australia', 'AUS'
       [country |-> <<66, 114, 97, 122, 105, 108>>, code |-> <<66, 82, 65>>],  \* 'Brazil', 'BRA'
       [country |-> <<65, 114, 103, 101, 110, 116, 105, 110, 97>>, code |-> <<65, 82, 71>>],  \* 'Argentina', 'ARG'
       [country |-> <<77, 101, 120, 105, 99, 111>>, code |-> <<77, 69, 88>>],  \* 'Mexico', 'MEX'
       [country |-> <<67, 104, 105, 110, 97>>, code |-> <<67, 72, 78>>],  \* 'China', 'CHN'
       [country |-> <<66, 101, 108, 103, 105, 117, 109>>, code |-> <<66, 69, 76>>],  \* 'Belgium', 'BEL'
       [country |-> <<68, 101, 110, 109, 97, 114, 107>>, code |-> <<68, 78, 75>>],  \* 'Denmark', 'DNK'
       [country |-> <<83, 119, 101, 100, 101, 110>>, code |-> <<83, 87, 69>>],  \* 'Sweden', 'SWE'
       [country |-> <<67, 122, 101, 99, 104, 105, 97>>, code |-> <<67, 90, 69>>],  \* 'Czechia', 'CZE'
       [country |-> <<83, 105, 110, 103, 97, 112, 111, 114, 101>>, code |-> <<83, 71, 80>>],  \* 'Singapore', 'SGP'
       [country |-> <<83, 111, 117, 116, 104, 32, 75, 111, 114, 101, 97>>, code |-> <<75, 79, 82>>],  \* 'South Korea', 'KOR'
       [country |-> <<84, 104, 97, 105, 108, 97, 110, 100>>, code |-> <<84, 72, 65>>],  \* 'Thailand', 'THA'
       [country |-> <<84, 117, 114, 107, 101, 121>>, code |-> <<84, 85, 82>>],  \* 'Turkey', 'TUR'
       [country |-> <<83, 97, 117, 100, 105, 32, 65, 114, 97, 98, 105, 97>>, code |-> <<83, 65, 85>>],  \* 'Saudi Arabia', 'SAU'
       [country |-> <<69, 103, 121, 112, 116>>, code |-> <<69, 71, 89>>],  \* 'Egypt', 'EGY'
       [country |-> <<85, 65, 69>>, code |-> <<65, 82, 69>>]   \* 'UAE', 'ARE'
    >>

\* String(v) as the default sort comparison stringifies an element.
SortString(v) == IF v = Null THEN <<110, 117, 108, 108>> ELSE v   \* "null"

\* a < b for two strings: the comparison of their UTF-16 code units.
RECURSIVE StringLess(_, _)
StringLess(a, b) ==
    IF b = <<>> THEN FALSE
    ELSE IF a = <<>> THEN TRUE
    ELSE IF a[1] # b[1] THEN a[1] < b[1]
    ELSE StringLess(Tail(a), Tail(b))

\* Number(v) for the operands of a - b: null is 0, a string is trimmed, the
\* empty string is 0, decimal digits are their value, anything else is NaN.
RECURSIVE TrimLeft(_)
TrimLeft(s) == IF s # <<>> /\ s[1] = 32 THEN TrimLeft(Tail(s)) ELSE s
RECURSIVE TrimRight(_)
TrimRight(s) ==
    IF s # <<>> /\ s[Len(s)] = 32 THEN TrimRight(SubSeq(s, 1, Len(s) - 1)) ELSE s
RECURSIVE DigitsValue(_)
DigitsValue(s) ==
    IF s = <<>> THEN 0 ELSE 10 * DigitsValue(SubSeq(s, 1, Len(s) - 1)) + (s[Len(s)] - 48)
NaN == [nan |-> TRUE, n |-> 0]
ToNumber(v) ==
    IF v = Null THEN [nan |-> FALSE, n |-> 0]
    ELSE LET t == TrimRight(TrimLeft(v))
         IN  IF \A j \in DOMAIN t : t[j] >= 48 /\ t[j] <= 57
             THEN [nan |-> FALSE, n |-> DigitsValue(t)]
             ELSE NaN

\* What the sort compares an element by: "string" is the default comparison
\* of sort(), on String(v); "numeric" the comparator (a, b) => a - b, on
\* Number(v).
SortKey(rule, v) == IF rule = "string" THEN SortString(v) ELSE ToNumber(v)

\* The sign the sort sees for two elements with keys x and y; a NaN result
\* of a - b counts as 0.
CompareKeys(rule, x, y) ==
    IF rule = "string"
    THEN IF StringLess(x, y) THEN -1 ELSE IF StringLess(y, x) THEN 1 ELSE 0
    ELSE IF x.nan \/ y.nan THEN 0
         ELSE IF x.n < y.n THEN -1 ELSE IF x.n > y.n THEN 1 ELSE 0

Compare(rule, a, b) == CompareKeys(rule, SortKey(rule, a), SortKey(rule, b))

\* Whether the comparison is a consistent comparator for the elements of the
\* list (ECMAScript, Array.prototype.sort): otherwise the order is
\* implementation-defined.
ConsistentComparator(rule, list) ==
    LET key == [j \in DOMAIN list |-> SortKey(rule, list[j])]
        cmp == [a \in DOMAIN list, b \in DOMAIN list |-> CompareKeys(rule, key[a], key[b])]
    IN  \A a, b, c \in DOMAIN list :
            /\ cmp[a, a] = 0
            /\ cmp[a, b] = 0 => cmp[b, a] = 0
            /\ cmp[a, b] = 0 /\ cmp[b, c] = 0 => cmp[a, c] = 0
            /\ cmp[a, b] < 0 /\ cmp[b, c] < 0 => cmp[a, c] < 0
            /\ cmp[a, b] > 0 /\ cmp[b, c] > 0 => cmp[a, c] > 0

\* Insert x behind every element that does not sort after it (stable).
RECURSIVE InsertSorted(_, _, _)
InsertSorted(rule, sorted, x) ==
    IF sorted = <<>> THEN <<x>>
    ELSE IF Compare(rule, sorted[1], x) > 0 THEN <<x>> \o sorted
    ELSE <<sorted[1]>> \o InsertSorted(rule, Tail(sorted), x)

RECURSIVE StableSort(_, _)
StableSort(rule, list) ==
    IF list = <<>> THEN <<>>
    ELSE InsertSorted(rule, StableSort(rule, SubSeq(list, 1, Len(list) - 1)),
                      list[Len(list)])

Permutations(list) ==
    {[j \in DOMAIN list |-> list[p[j]]] :
        p \in {q \in [DOMAIN list -> DOMAIN list] :
                   \A a, b \in DOMAIN list : a # b => q[a] # q[b]}}

\* The results Array.prototype.sort can produce.
SortOutcomes(rule, list) ==
    IF ConsistentComparator(rule, list)
    THEN {StableSort(rule, list)}
    ELSE Permutations(list)

\* list.indexOf(v): the first position of v, from 1; 0 when absent.
RECURSIVE IndexOfFrom(_, _, _)
IndexOfFrom(list, v, from) ==
    IF from > Len(list) THEN 0
    ELSE IF list[from] = v THEN from
    ELSE IndexOfFrom(list, v, from + 1)
IndexOf(list, v) == IndexOfFrom(list, v, 1)

\* Faulty variants of Dedupe: no filter at all; null filtered out as well.
KeepAll(list) == list
DedupeNonNull(list) ==
    SelectSeq([j \in DOMAIN list |-> IF IndexOf(list, list[j]) = j THEN list[j] ELSE <<-2>>],
              LAMBDA v : v # <<-2>> /\ v # Null)
\* .filter((v, i, list) => list.indexOf(v) === i) (visual.ts:466, 720)
Dedupe(list) ==
    LET keep == {j \in DOMAIN list : IndexOf(list, list[j]) = j}
        RECURSIVE Kept(_)
        Kept(j) == IF j > Len(list) THEN <<>>
                   ELSE (IF j \in keep THEN <<list[j]>> ELSE <<>>) \o Kept(j + 1)
    IN  Kept(1)

\* mapData.map(v => v.Launch)
Launches(data) == [j \in DOMAIN data |-> data[j].Launch]

\* getDistinctYears (visual.ts:465-467): the only result, the default
\* comparison being consistent.
GetDistinctYears(data) == StableSort("string", Dedupe(Launches(data)))

\* The distinctYears of renderRegionalMap (visual.ts:720), every result the
\* sort can produce.
RegionalDistinctYears(data) == SortOutcomes("numeric", Dedupe(Launches(data)))

\* mapData.find(y => y.Launch === v): the position of the record, 0 if none.
RECURSIVE FindLaunchFrom(_, _, _)
FindLaunchFrom(data, v, from) ==
    IF from > Len(data) THEN 0
    ELSE IF data[from].Launch = v THEN from
    ELSE FindLaunchFrom(data, v, from + 1)
\* Faulty variant of FindLaunch: a record of the cohort with a colour first.
FindLaunchPreferColor(data, v) ==
    LET K == {k \in DOMAIN data : data[k].Launch = v /\ data[k].Color # Null}
    IN  IF K = {} THEN FindLaunchFrom(data, v, 1)
        ELSE CHOOSE k \in K : \A k2 \in K : k <= k2
\* mapData.find(y => y.Launch === v) from the first record.
FindLaunch(data, v) == FindLaunchFrom(data, v, 1)

\* getYearColorData (visual.ts:469-477); yearColor.Color throws when find
\* returns undefined.
GetYearColorData(data, years) ==
    IF \E j \in DOMAIN years : FindLaunch(data, years[j]) = 0
    THEN [threw |-> TRUE, value |-> <<>>]
    ELSE [threw |-> FALSE,
          value |-> [j \in DOMAIN years |->
                        [Year |-> years[j],
                         Color |-> data[FindLaunch(data, years[j])].Color]]]

\* this.yearColorData.find((y, i) => y.Year === v.Launch): position, 0 if none.
RECURSIVE FindYearFrom(_, _, _)
FindYearFrom(ycd, launch, from) ==
    IF from > Len(ycd) THEN 0
    ELSE IF ycd[from].Year = launch THEN from
    ELSE FindYearFrom(ycd, launch, from + 1)

\* Faulty variant of NameMatches: every table entry matches.
NameMatchesAlways(tableName, name) == TRUE
\* c.country.toLowerCase() === v.Country.toLowerCase() (visual.ts:490, 502);
\* the lengths are compared first, toLowerCase keeping the length of a text.
NameMatches(tableName, name) ==
    Len(tableName) = Len(name) /\ ToLowerCase(tableName) = ToLowerCase(name)

\* codes.find(c => ...): position of the first table entry matching the
\* name, 0 if none; names is the table's name column.
RECURSIVE FindCodeFrom(_, _, _)
FindCodeFrom(names, name, from) ==
    IF from > Len(names) THEN 0
    ELSE IF NameMatches(names[from], name) THEN from
    ELSE FindCodeFrom(names, name, from + 1)

CountryNames == [j \in DOMAIN CountryCodes |-> CountryCodes[j].country]
StateNames == [j \in DOMAIN USAStateCodes |-> USAStateCodes[j].state]

EmptyMap == [c \in {} |-> 0]
Put(map, key, entry) ==
    [c \in DOMAIN map \cup {key} |-> IF c = key THEN entry ELSE map[c]]

\* visual.ts:459-463: the palette before any cohort colour is added.
DefaultFillKey == <<100, 101, 102, 97, 117, 108, 116, 70, 105, 108, 108>>  \* "defaultFill"
Gray == <<35, 67, 57, 67, 57, 67, 57>>                                     \* "#C9C9C9"
GetDefaultFills == Put(EmptyMap, DefaultFillKey, Gray)

\* if (v.Color): null and "" are falsy.
TruthyString(v) == v # Null /\ v # <<>>

\* Faulty variant: the palette keeps the first cohort colour only.
RECURSIVE ApplyFirstFillFrom(_, _, _)
ApplyFirstFillFrom(palette, ycd, from) ==
    IF from > Len(ycd) THEN palette
    ELSE IF TruthyString(ycd[from].Color)
         THEN Put(palette, ycd[from].Color, ycd[from].Color)
         ELSE ApplyFirstFillFrom(palette, ycd, from + 1)

\* visual.ts:479-485: the forEach of applyFills from entry `from` on;
\* fills[v.Color.toString()] = v.Color for every entry with a truthy Color.
RECURSIVE ApplyFillsFrom(_, _, _)
ApplyFillsFrom(palette, ycd, from) ==
    IF from > Len(ycd) THEN palette
    ELSE ApplyFillsFrom(IF TruthyString(ycd[from].Color)
                        THEN Put(palette, ycd[from].Color, ycd[from].Color)
                        ELSE palette,
                        ycd, from + 1)

ApplyFills(palette, ycd) == ApplyFillsFrom(palette, ycd, 1)

\* The forEach of getDatamapColorData / getDatamapColorDataFromUSA
\* (visual.ts:489-495, 501-507) from record `from` on: names / codes are the
\* table's columns, geo[k] is the record's Country (resp. State).
\* null.toLowerCase() throws a TypeError, which ends the loop.
RECURSIVE ColorDataFrom(_, _, _, _, _, _, _)
ColorDataFrom(data, geo, names, codes, ycd, from, acc) ==
    IF from > Len(data) THEN [threw |-> FALSE, value |-> acc]
    ELSE IF geo[from] = Null THEN [threw |-> TRUE, value |-> EmptyMap]
    ELSE LET c == FindCodeFrom(names, geo[from], 1)
             y == FindYearFrom(ycd, data[from].Launch, 1)
             hit == /\ c # 0 /\ codes[c] # <<>>
                    /\ y # 0 /\ ycd[y].Color # Null /\ ycd[y].Color # <<>>
         IN  ColorDataFrom(data, geo, names, codes, ycd, from + 1,
                IF hit
                THEN Put(acc, codes[c],
                         [fillKey |-> ycd[y].Color,
                          selectionId |-> data[from].selectionId])
                ELSE acc)

\* getDatamapColorData (visual.ts:487-497)
GetDatamapColorData(data, ycd) ==
    ColorDataFrom(data, [j \in DOMAIN data |-> data[j].Country], CountryNames,
                  [j \in DOMAIN CountryCodes |-> CountryCodes[j].code], ycd, 1, EmptyMap)

\* getDatamapColorDataFromUSA (visual.ts:499-509)
GetDatamapColorDataFromUSA(data, ycd) ==
    ColorDataFrom(data, [j \in DOMAIN data |-> data[j].State], StateNames,
                  [j \in DOMAIN USAStateCodes |-> USAStateCodes[j].code], ycd, 1, EmptyMap)

----------------------------------------------------------------------------
(* The record lists the classifier is run on, and its steps as             *)
(* renderWorldMap (visual.ts:528-534), renderRegionalMap (visual.ts:720-   *)
(* 728) and getUSAStateMap (visual.ts:694) take them.                      *)

Germany  == <<71, 101, 114, 109, 97, 110, 121>>     \* "Germany"
FranceMixedCase == <<102, 82, 65, 78, 67, 69>>      \* "fRANCE"
Mars     == <<77, 97, 114, 115>>                    \* "Mars", in no table
Ohio     == <<79, 104, 105, 111>>                   \* "Ohio"
TexasMixedCase == <<116, 69, 88, 65, 83>>           \* "tEXAS"
Year2024 == <<50, 48, 50, 52>>                      \* "2024"
Year2025 == <<50, 48, 50, 53>>                      \* "2025"
Quarter2025 == <<81, 49, 32, 50, 48, 50, 53>>       \* "Q1 2025"
Red      == <<35, 102, 48, 48>>                     \* "#f00"

GeoNames(m) ==
    IF m = "usa" THEN {Null, TexasMixedCase, Ohio, Mars}
    ELSE {Null, FranceMixedCase, Germany, Mars}
LaunchValues == {Null, Year2024, Year2025, Quarter2025}
ColorValues == {Null, Red}

\* A GlobalFacilityLocation (visual.ts:49-61) whose geographic name is its
\* State on the USA map and its Country on the other maps.
FacilityRecord(m, geo, launch, color) ==
    [Company      |-> Null,
     Region       |-> Null,
     State        |-> IF m = "usa" THEN geo ELSE Null,
     Country      |-> IF m = "usa" THEN Null ELSE geo,
     DocumentLink |-> Null,
     Launch       |-> launch,
     Color        |-> color,
     Highlights   |-> Null,
     HeaderImage  |-> Null,
     FooterImage  |-> Null,
     selectionId  |-> [serial |-> 0]]

FacilityRecords(m) ==
    {FacilityRecord(m, g, l, c) : g \in GeoNames(m), l \in LaunchValues, c \in ColorValues}

\* The record list of length n built from `list`, each record carrying the
\* selection id of its row.
WithSelectionIds(list) ==
    [j \in DOMAIN list |-> [list[j] EXCEPT !.selectionId = [serial |-> j]]]

ClassifierInit ==
    /\ pc = "render"
    /\ mode \in {"world", "regional", "usa"}
    /\ \E n \in 0..MaxRecords : \E list \in [1..n -> FacilityRecords(mode)] :
           mapData = WithSelectionIds(list)
    /\ distinctYears = <<>>
    /\ yearColorData = <<>>
    /\ colorData = NoColorData
    /\ NoRender
    /\ NoUpdate
    /\ error = "none"
    /\ dataView = [table |-> NoTable]
    /\ ti = 0
    /\ index = InitialIndex
    /\ i = 0
    /\ resultData = <<>>
    /\ hostCalls = <<>>

\* visual.ts:526, 528 (world map), visual.ts:719, 720 (regional and USA map)
DistinctYearsStep ==
    /\ pc = "render"
    /\ \E years \in (IF mode = "world" THEN {GetDistinctYears(mapData)}
                                       ELSE RegionalDistinctYears(mapData)) :
           distinctYears' = years
    /\ fills' = GetDefaultFills
    /\ pc' = "years"
    /\ UNCHANGED <<mode, mapData, yearColorData, colorData, error>>
    /\ UNCHANGED <<legend, highlights>>
    /\ UNCHANGED <<converterVars, updateVars, layoutVars, clicks>>

\* Faulty variant: a year-colour list computed by an earlier update is kept.
YearColorDataStepCached ==
    /\ pc = "years"
    /\ LET r == GetYearColorData(mapData, distinctYears)
       IN  IF r.threw
           THEN /\ pc' = "threw"
                /\ error' = "TypeError"
                /\ UNCHANGED <<yearColorData, fills>>
           ELSE /\ pc' = "colors"
                /\ yearColorData' = IF yearColorData = <<>> THEN r.value ELSE yearColorData
                /\ fills' = ApplyFills(fills, yearColorData')
                /\ UNCHANGED error
    /\ UNCHANGED <<legend, highlights>>
    /\ UNCHANGED <<mode, mapData, distinctYears, colorData>>
    /\ UNCHANGED <<converterVars, updateVars, layoutVars, clicks>>

\* visual.ts:530, 532 (world map), visual.ts:721, 722 (regional and USA
\* map): this.yearColorData = this.getYearColorData(...); this.applyFills(fills)
YearColorDataStep ==
    /\ pc = "years"
    /\ LET r == GetYearColorData(mapData, distinctYears)
       IN  IF r.threw
           THEN /\ pc' = "threw"
                /\ error' = "TypeError"
                /\ UNCHANGED <<yearColorData, fills>>
           ELSE /\ pc' = "colors"
                /\ yearColorData' = r.value
                /\ fills' = ApplyFills(fills, r.value)
                /\ UNCHANGED error
    /\ UNCHANGED <<legend, highlights>>
    /\ UNCHANGED <<mode, mapData, distinctYears, colorData>>
    /\ UNCHANGED <<converterVars, updateVars, layoutVars, clicks>>

\* visual.ts:534, 728: let data = this.getDatamapColorData(mapData, countryCodes)
DatamapColorDataStep ==
    /\ pc = "colors"
    /\ mode # "usa"
    /\ LET r == GetDatamapColorData(mapData, yearColorData)
       IN  IF r.threw
           THEN /\ pc' = "threw"
                /\ error' = "TypeError"
                /\ UNCHANGED colorData
           ELSE /\ pc' = "rendered"
                /\ colorData' = r.value
                /\ UNCHANGED error
    /\ UNCHANGED <<mode, mapData, distinctYears, yearColorData>>
    /\ UNCHANGED renderVars
    /\ UNCHANGED <<converterVars, updateVars, layoutVars, clicks>>

\* visual.ts:694: let data = this.getDatamapColorDataFromUSA(mapData, stateCodes)
DatamapColorDataFromUSAStep ==
    /\ pc = "colors"
    /\ mode = "usa"
    /\ LET r == GetDatamapColorDataFromUSA(mapData, yearColorData)
       IN  IF r.threw
           THEN /\ pc' = "threw"
                /\ error' = "TypeError"
                /\ UNCHANGED colorData
           ELSE /\ pc' = "rendered"
                /\ colorData' = r.value
                /\ UNCHANGED error
    /\ UNCHANGED <<mode, mapData, distinctYears, yearColorData>>
    /\ UNCHANGED renderVars
    /\ UNCHANGED <<converterVars, updateVars, layoutVars, clicks>>

ClassifierNext ==
    \/ DistinctYearsStep
    \/ YearColorDataStep
    \/ DatamapColorDataStep
    \/ DatamapColorDataFromUSAStep

ClassifierSpec == ClassifierInit /\ [][ClassifierNext]_vars

----------------------------------------------------------------------------
(* Claims about Visual.CONVERTER, checked under ConverterSpec.             *)

Table == dataView.table
Declares(k, r) == Table.columns[k + 1].hasRoles /\ r \in Table.columns[k + 1].roles
ColumnIndexes == 0..(Len(Table.columns) - 1)

\* The stringified value of a cell, null for a null or unset cell.
Stringified(c) == IF c.k \in {"null", "undefined"} THEN Null ELSE ToString(c)

SetMax(S) == CHOOSE x \in S : \A y \in S : y <= x
SetMin(S) == CHOOSE x \in S : \A y \in S : x <= y

\* C1: when CONVERTER returns for a present table, resultData holds exactly
\* one record per input row, and the j-th record holds the fields read from
\* the j-th row (row order preserved); while the row loop runs, resultData is
\* the converted prefix of the rows.
C1_OneRecordPerRowInOrder ==
    /\ pc = "rows" => Len(resultData) = i /\ i <= Len(Table.rows)
    /\ pc = "returned" => Len(resultData) = Len(Table.rows)
    /\ pc \in {"rows", "returned"} =>
          \A j \in DOMAIN resultData : \A r \in Roles :
              resultData[j][r] = Field(Table.rows[j], index[r])

C1_Witness ==
    /\ pc = "returned"
    /\ Len(resultData) = 2
    /\ resultData[1].Country = France
    /\ resultData[2].Country = Null

\* C2 (as claimed): a column at index k that alone declares role r gives
\* every record, as field r, the stringified value of row[k] whenever row[k]
\* is non-null (0, false and "" included), and null only for a null or unset
\* row[k].
C2_FieldIsStringifiedCell ==
    pc = "returned" =>
        \A k \in ColumnIndexes : \A r \in Roles :
            (/\ Table.columns[k + 1].hasRoles
             /\ Table.columns[k + 1].roles = {r}
             /\ \A k2 \in ColumnIndexes \ {k} : ~Declares(k2, r))
            => \A j \in DOMAIN resultData :
                   resultData[j][r] = Stringified(RowAt(Table.rows[j], k))

\* The role the else-if chain assigns a column to: the first role of the
\* vocabulary, in the order of the chain, among those the column declares.
ChainRole(roles) ==
    IF roles \cap Roles = {} THEN "none"
    ELSE RoleOrder[SetMin({m \in DOMAIN RoleOrder : RoleOrder[m] \in roles})]

C4_UndeclaredRoleIsNull ==
    pc \in {"rows", "returned"} =>
        \A r \in Roles :
            (\A k \in ColumnIndexes : ~Declares(k, r))
            => \A j \in DOMAIN resultData : resultData[j][r] = Null

C4_Witness ==
    /\ pc = "returned"
    /\ \A k \in ColumnIndexes : ~Declares(k, "Launch")
    /\ Len(resultData) = 2
    /\ \A j \in DOMAIN Table.rows : Truthy(RowAt(Table.rows[j], 0))
    /\ resultData[1].Launch = Null /\ resultData[2].Launch = Null

\* C5: during one CONVERTER call the host's selection-id builder has been
\* called exactly once for each row converted so far, with (table, row
\* index) for row indexes 0, 1, ... in increasing order; the identifier the
\* host returned for row j is the selectionId of record j; on return it has
\* been called once per row of the table.
C5_SelectionIdOncePerRowInOrder ==
    /\ Len(hostCalls) = Len(resultData)
    /\ \A j \in DOMAIN hostCalls :
          /\ hostCalls[j].table = Table
          /\ hostCalls[j].row = j - 1
          /\ resultData[j].selectionId = hostCalls[j].id
    /\ \A j, j2 \in DOMAIN hostCalls : j # j2 => hostCalls[j].id # hostCalls[j2].id
    /\ pc = "returned" => Len(hostCalls) = Len(Table.rows)

C5_Witness ==
    /\ pc = "returned"
    /\ Len(hostCalls) = 2
    /\ hostCalls[1].row = 0 /\ hostCalls[2].row = 1
    /\ resultData[2].selectionId = hostCalls[2].id

----------------------------------------------------------------------------
(* Claims about the cohort classifier, checked under ClassifierSpec.       *)

Elements(list) == {list[j] : j \in DOMAIN list}
YearsComputed == pc \in {"years", "colors", "rendered"}
YearColorsComputed == pc \in {"colors", "rendered"}

\* C6: the list of distinct Launch values computed from a record list (by
\* getDistinctYears on the world map, inline on the regional and USA maps)
\* holds every Launch value of the records and never the same value twice.
C6_DistinctYearsHasNoDuplicates ==
    YearsComputed =>
        /\ \A j, j2 \in DOMAIN distinctYears :
               j # j2 => distinctYears[j] # distinctYears[j2]
        /\ Elements(distinctYears) = Elements(Launches(mapData))

C6_Witness ==
    /\ pc = "years"
    /\ Len(mapData) = 2
    /\ mapData[1].Launch = mapData[2].Launch
    /\ Len(distinctYears) = 1

C8_YearColorIsFirstRecordsColor ==
    YearColorsComputed =>
        /\ Len(yearColorData) = Len(distinctYears)
        /\ \A j \in DOMAIN yearColorData :
               LET K == {k \in DOMAIN mapData : mapData[k].Launch = distinctYears[j]}
               IN  /\ yearColorData[j].Year = distinctYears[j]
                   /\ K # {}
                   /\ yearColorData[j].Color = mapData[SetMin(K)].Color

C8_Witness ==
    /\ pc = "colors"
    /\ Len(mapData) = 2
    /\ mapData[1].Launch = Year2025 /\ mapData[1].Color = Null
    /\ mapData[2].Launch = Year2025 /\ mapData[2].Color = Red
    /\ yearColorData = <<[Year |-> Year2025, Color |-> Null]>>

\* C9: the geo colour map built by getDatamapColorData has a key only if
\* some input record's Country matches, case-insensitively, the country name
\* of that code in the country table; a record whose Country matches no
\* table name contributes no entry.
C9_KeysComeFromMatchingCountries ==
    (pc = "rendered" /\ mode # "usa") =>
        \A code \in DOMAIN colorData :
            \E k \in DOMAIN mapData : \E e \in DOMAIN CountryCodes :
                /\ CountryCodes[e].code = code
                /\ mapData[k].Country # Null
                /\ ToLowerCase(CountryCodes[e].country) = ToLowerCase(mapData[k].Country)

C9_Witness ==
    /\ pc = "rendered"
    /\ mode = "world"
    /\ Len(mapData) = 2
    /\ mapData[1].Country = Mars /\ mapData[1].Color = Red
    /\ mapData[2].Country = FranceMixedCase /\ mapData[2].Color = Red
    /\ mapData[1].Launch # mapData[2].Launch
    /\ DOMAIN colorData = {<<70, 82, 65>>}      \* "FRA"

\* The codes the records resolve to with a coloured cohort: what the geo
\* colour map is to hold when unresolved records are skipped.
ResolvedCodes ==
    LET names == IF mode = "usa" THEN StateNames ELSE CountryNames
        codes == IF mode = "usa"
                 THEN [j \in DOMAIN USAStateCodes |-> USAStateCodes[j].code]
                 ELSE [j \in DOMAIN CountryCodes |-> CountryCodes[j].code]
        geo(k) == IF mode = "usa" THEN mapData[k].State ELSE mapData[k].Country
    IN  {codes[e] : e \in
            {e \in DOMAIN names : \E k \in DOMAIN mapData :
                /\ geo(k) # Null
                /\ ToLowerCase(names[e]) = ToLowerCase(geo(k))
                /\ \E y \in DOMAIN yearColorData :
                       /\ yearColorData[y].Year = mapData[k].Launch
                       /\ yearColorData[y].Color # Null}}

\* C10 (as claimed): a record that fails the geo-name or the cohort-colour
\* resolution, a record with a null Country (State on the USA map) included,
\* is skipped without any error: getDatamapColorData and
\* getDatamapColorDataFromUSA complete normally and the other records are
\* still mapped.
C10_UnresolvedRecordsAreSkipped ==
    /\ error = "none"
    /\ pc # "threw"
    /\ pc = "rendered" => DOMAIN colorData = ResolvedCodes

\* The code of the table entry the record's geographic name resolves to, for
\* a record whose cohort has a colour; <<>> when either resolution fails.
ResolvedCode(k) ==
    LET names == IF mode = "usa" THEN StateNames ELSE CountryNames
        geo == IF mode = "usa" THEN mapData[k].State ELSE mapData[k].Country
        E == {e \in DOMAIN names : geo # Null /\ ToLowerCase(names[e]) = ToLowerCase(geo)}
        Y == {y \in DOMAIN yearColorData :
                 yearColorData[y].Year = mapData[k].Launch /\ yearColorData[y].Color # Null}
    IN  IF E = {} \/ Y = {} THEN <<>>
        ELSE IF mode = "usa" THEN USAStateCodes[SetMin(E)].code
        ELSE CountryCodes[SetMin(E)].code

CohortColor(k) ==
    yearColorData[SetMin({y \in DOMAIN yearColorData :
                              yearColorData[y].Year = mapData[k].Launch})].Color

\* C11 (as claimed), for record lists in which no two records resolve to the
\* same code: once getDatamapColorData has run, every record whose Country
\* resolves to a code and whose Launch cohort has a colour has an entry at
\* that code whose fillKey is the cohort colour, and the keys of the map are
\* exactly the codes of such records.
C11_ResolvedRecordsAreMapped ==
    (/\ pc \in {"rendered", "threw"}
     /\ mode # "usa"
     /\ \A k, k2 \in DOMAIN mapData :
            (k # k2 /\ ResolvedCode(k) # <<>>) => ResolvedCode(k) # ResolvedCode(k2))
    => /\ \A k \in DOMAIN mapData :
              ResolvedCode(k) # <<>> =>
                  /\ ResolvedCode(k) \in DOMAIN colorData
                  /\ colorData[ResolvedCode(k)].fillKey = CohortColor(k)
       /\ DOMAIN colorData = {ResolvedCode(k) : k \in DOMAIN mapData} \ {<<>>}

----------------------------------------------------------------------------
(* Region resolution and the regional partition of update                  *)
(* (visual.ts:198-204, 614-631).                                           *)

USA    == <<85, 83, 65>>                  \* "USA"
Europe == <<69, 117, 114, 111, 112, 101>> \* "Europe"
EuropeLowerCase == <<101, 117, 114, 111, 112, 101>>  \* "europe"
Asia   == <<65, 115, 105, 97>>            \* "Asia"

Regions(data) == [j \in DOMAIN data |-> data[j].Region]

\* Faulty variant: the region is resolved from the records alone, the
\* configured "USA" is no override.
GetCurrentRegionOfRecords(data, locations) ==
    LET distinctRegions == Dedupe(Regions(data))
    IN  IF Len(distinctRegions) = 1
        THEN IF distinctRegions[1] = Null
             THEN [threw |-> TRUE, value |-> Null]
             ELSE [threw |-> FALSE, value |-> distinctRegions[1]]
        ELSE [threw |-> FALSE, value |-> locations.defaultRegion]

\* visual.ts:614-631.  distinctRegions[0].toString() is the string itself
\* for a string Region and throws a TypeError for null.
GetCurrentRegion(data, locations) ==
    IF locations.viewRegionalMap /\ locations.defaultRegion = USA
    THEN [threw |-> FALSE, value |-> locations.defaultRegion]
    ELSE LET distinctRegions == Dedupe(Regions(data))
         IN  IF Len(distinctRegions) = 1
             THEN IF distinctRegions[1] = Null
                  THEN [threw |-> TRUE, value |-> Null]
                  ELSE [threw |-> FALSE, value |-> distinctRegions[1]]
             ELSE [threw |-> FALSE, value |-> locations.defaultRegion]

\* Faulty variant: the comparison ignores letter case.
FilterByRegionAnyCase(data, region) ==
    SelectSeq(data, LAMBDA d : d.Region # Null /\ ToLowerCase(d.Region) = ToLowerCase(region))

\* visual.ts:203: finalMapData.filter(d => d.Region === currentRegion)
FilterByRegion(data, region) == SelectSeq(data, LAMBDA d : d.Region = region)

\* Faulty variant: the records are filtered whatever the region.
PartitionAlways(data, region) == SelectSeq(data, LAMBDA d : d.Region = region)

\* visual.ts:202-204: if (currentRegion != "USA") { finalMapData = ... }
PartitionByRegion(data, region) ==
    IF region # USA THEN FilterByRegion(data, region) ELSE data

\* Inputs of the region steps.
RegionValues == {Null, USA, Europe, EuropeLowerCase, Asia}
DefaultRegions == {USA, Europe, Asia}

RegionRecords ==
    {[FacilityRecord("regional", France, Year2025, Red) EXCEPT !.Region = r] :
        r \in RegionValues}

RegionSettings ==
    {[NoSettings EXCEPT !.viewRegionalMap = v, !.defaultRegion = r] :
        v \in BOOLEAN, r \in DefaultRegions}

RegionInit ==
    /\ pc = "region"
    /\ settings \in RegionSettings
    /\ \E n \in 0..MaxRecords : \E list \in [1..n -> RegionRecords] :
           finalMapData = WithSelectionIds(list)
    /\ currentYear \in ClockYears
    /\ currentRegion = Null
    /\ events = <<>>
    /\ loads = <<>>
    /\ viewport = NoViewport
    /\ NoLayout
    /\ clicks = <<>>
    /\ mode = "world"
    /\ mapData = NoRecords
    /\ distinctYears = <<>>
    /\ yearColorData = <<>>
    /\ colorData = NoColorData
    /\ NoRender
    /\ error = "none"
    /\ dataView = [table |-> NoTable]
    /\ ti = 0
    /\ index = InitialIndex
    /\ i = 0
    /\ resultData = <<>>
    /\ hostCalls = <<>>

\* visual.ts:198: let currentRegion = this.getCurrentRegion(finalMapData)
GetCurrentRegionStep ==
    /\ pc = "region"
    /\ LET r == GetCurrentRegion(finalMapData, settings)
       IN  IF r.threw
           THEN /\ pc' = "threw"
                /\ error' = "TypeError"
                /\ UNCHANGED currentRegion
           ELSE /\ pc' = "partition"
                /\ currentRegion' = r.value
                /\ UNCHANGED error
    /\ UNCHANGED <<settings, currentYear, finalMapData, events, loads>>
    /\ UNCHANGED <<converterVars, classifierVars, renderVars>>
    /\ UNCHANGED <<layoutVars, clicks>>

\* visual.ts:200-213, which update reaches in the regional view only: the
\* partition of the records, and the list and map handed to
\* renderRegionalMap.
PartitionStep ==
    /\ pc = "partition"
    /\ settings.viewRegionalMap
    /\ finalMapData' = PartitionByRegion(finalMapData, currentRegion)
    /\ mapData' = finalMapData'
    /\ mode' = IF currentRegion # USA THEN "regional" ELSE "usa"
    /\ pc' = "render"
    /\ UNCHANGED <<settings, currentYear, currentRegion, events, loads, error>>
    /\ UNCHANGED <<distinctYears, yearColorData, colorData>>
    /\ UNCHANGED <<converterVars, renderVars>>
    /\ UNCHANGED <<layoutVars, clicks>>

RegionNext ==
    \/ GetCurrentRegionStep
    \/ PartitionStep

RegionSpec == RegionInit /\ [][RegionNext]_vars

\* The n-th smallest member of a set of numbers.
NthOf(S, n) == CHOOSE x \in S : Cardinality({y \in S : y < x}) = n - 1

RegionOverride == settings.viewRegionalMap /\ settings.defaultRegion = USA

\* C12: when the current region is "USA", the partition step of update
\* leaves the record list as it was: the list handed to the regional map is
\* the whole list, in the same order.
C12_USARegionKeepsAllRecords ==
    [][(pc = "partition" /\ pc' = "render" /\ currentRegion = USA)
       => (finalMapData' = finalMapData /\ mapData' = finalMapData)]_vars

\* The USA map was handed two records, one of them of another region.
C12_Witness ==
    /\ pc = "render"
    /\ currentRegion = USA
    /\ Len(mapData) = 2
    /\ \E j \in DOMAIN mapData : mapData[j].Region = Europe

\* C13: for a current region other than "USA", the list handed to the
\* regional map holds exactly the records whose Region is the current
\* region, code unit for code unit, in the order they had in the list.
C13_OtherRegionKeepsItsRecordsInOrder ==
    [][(pc = "partition" /\ pc' = "render" /\ currentRegion # USA)
       => LET keep == {j \in DOMAIN finalMapData :
                           finalMapData[j].Region = currentRegion}
          IN  /\ Len(mapData') = Cardinality(keep)
              /\ \A a \in DOMAIN mapData' :
                     mapData'[a] = finalMapData[NthOf(keep, a)]
              /\ finalMapData' = mapData']_vars

\* The record of row 1 was dropped and the record of row 2 kept.
C13_Witness ==
    /\ pc = "render"
    /\ currentRegion = Europe
    /\ Len(mapData) = 1
    /\ mapData[1].selectionId.serial = 2

\* C14: getCurrentRegion returns "USA" whenever the regional-map setting is
\* enabled and the configured default region is "USA", whatever the
\* records hold.
C14_ConfiguredUSAOverridesRecords ==
    (RegionOverride /\ pc # "region") => (pc # "threw" /\ currentRegion = USA)

\* "USA" was returned for records that all name Europe.
C14_Witness ==
    /\ pc = "partition"
    /\ RegionOverride
    /\ currentRegion = USA
    /\ Len(finalMapData) = 2
    /\ \A j \in DOMAIN finalMapData : finalMapData[j].Region = Europe

\* C15 (as claimed): when the override does not apply, getCurrentRegion
\* returns a value for every record list: the single distinct Region if the
\* records hold exactly one, the configured default region otherwise.
C15_RegionOfRecordsElseDefault ==
    (~RegionOverride /\ pc \in {"partition", "threw"})
    => LET R == {finalMapData[j].Region : j \in DOMAIN finalMapData}
       IN  /\ pc = "partition"
           /\ Cardinality(R) = 1 => \A r \in R : r # Null => currentRegion = r
           /\ Cardinality(R) # 1 => currentRegion = settings.defaultRegion

----------------------------------------------------------------------------
(* The legends and the highlights panel (visual.ts:562-612, 813-859), and  *)
(* the render pass of one view on a record list.                           *)

Space == 32

\* s.split(' '): the tokens between single spaces, empty tokens included.
RECURSIVE SplitFrom(_, _, _)
SplitFrom(s, from, token) ==
    IF from > Len(s) THEN <<token>>
    ELSE IF s[from] = Space THEN <<token>> \o SplitFrom(s, from + 1, <<>>)
    ELSE SplitFrom(s, from + 1, Append(token, s[from]))

Split(s) == SplitFrom(s, 1, <<>>)

TwoTokenYear(y) == y # Null /\ y # <<>> /\ Len(Split(y)) = 2

\* The undefined a map callback returns when it falls off its end.
NoEntry == [Year |-> <<-2>>, Color |-> <<-2>>]

\* visual.ts:567-579: the callback of this.yearColorData.map.
ReversedYearColor(v) ==
    IF TruthyString(v.Year)
    THEN LET splits == Split(v.Year)
         IN  [Year  |-> IF Len(splits) = 2
                        THEN splits[2] \o <<Space>> \o splits[1]
                        ELSE splits[1],
              Color |-> v.Color]
    ELSE NoEntry

\* visual.ts:581-587: sort by Year with < and >; the sort moves undefined
\* elements behind the others without comparing them.
RECURSIVE InsertByYear(_, _)
InsertByYear(sorted, x) ==
    IF sorted = <<>> THEN <<x>>
    ELSE IF StringLess(x.Year, sorted[1].Year) THEN <<x>> \o sorted
    ELSE <<sorted[1]>> \o InsertByYear(Tail(sorted), x)

RECURSIVE SortDefinedByYear(_)
SortDefinedByYear(list) ==
    IF list = <<>> THEN <<>>
    ELSE InsertByYear(SortDefinedByYear(SubSeq(list, 1, Len(list) - 1)),
                      list[Len(list)])

SortByYear(list) ==
    SortDefinedByYear(SelectSeq(list, LAMBDA d : d # NoEntry))
        \o SelectSeq(list, LAMBDA d : d = NoEntry)

\* visual.ts:595-599, 848-852: the background colour of a legend entry.
LegendColor(d) == IF TruthyString(d.Color) THEN ToLowerCase(d.Color) ELSE <<>>

\* selection.text(f): a null or undefined result shows as the empty text.
TextContent(v) == IF v = Null THEN <<>> ELSE v

\* Faulty variant: the entry shows the Year of its datum as it is.
LegendKeyText(d) == IF d.Year = Null THEN <<>> ELSE d.Year

\* visual.ts:601-611: the text of a world legend entry.  For an empty Year
\* splits is "" and splits[0] is undefined.
WorldLegendText(d) ==
    IF TruthyString(d.Year)
    THEN LET splits == Split(d.Year)
         IN  IF Len(splits) = 2
             THEN splits[2] \o <<Space>> \o splits[1]
             ELSE splits[1]
    ELSE TextContent(Null)

\* Faulty variant: the regional entry shows a two-token Year transposed.
TransposedLegendText(d) ==
    IF TwoTokenYear(d.Year)
    THEN Split(d.Year)[2] \o <<Space>> \o Split(d.Year)[1]
    ELSE IF d.Year = Null THEN <<>> ELSE d.Year

\* visual.ts:853-858: the text of a regional legend entry.
RegionalLegendText(d) == TextContent(d.Year)

\* A legend entry: the datum bound to it, and the colour and text it shows
\* (Null while not set).
LegendEntry(d, color, text) == [datum |-> d, color |-> color, text |-> text]

\* visual.ts:589-611: the entries of the world legend.  The colour callback
\* reads d.Color, which throws a TypeError at the first undefined datum; the
\* entries before it have their colour, and no entry has its text yet.
RenderWorldMapLegend(ycd) ==
    LET data == SortByYear([j \in DOMAIN ycd |-> ReversedYearColor(ycd[j])])
        defined == Cardinality({j \in DOMAIN data : data[j] # NoEntry})
    IN  IF defined < Len(data)
        THEN [threw |-> TRUE,
              value |-> [j \in DOMAIN data |->
                            LegendEntry(data[j],
                                        IF j <= defined THEN LegendColor(data[j]) ELSE Null,
                                        Null)]]
        ELSE [threw |-> FALSE,
              value |-> [j \in DOMAIN data |->
                            LegendEntry(data[j], LegendColor(data[j]),
                                        WorldLegendText(data[j]))]]

\* visual.ts:842-858: the entries of the regional legend.
RenderRegionalMapLegend(ycd) ==
    [j \in DOMAIN ycd |->
        LegendEntry(ycd[j], LegendColor(ycd[j]), RegionalLegendText(ycd[j]))]

\* The HTML sanitizer is a service outside the visual: its result is kept
\* as the sanitized form of the text it was given.
SanitizeHtml(text) == [sanitized |-> text]

\* visual.ts:813-830.  let [map] = mapData leaves map undefined for an empty
\* list, and map.Highlights then throws a TypeError, the panel and its
\* header already appended.
CreateHighlightsContainerElement(data, locations) ==
    IF ~locations.viewHighlights THEN [threw |-> FALSE, value |-> NoHighlights]
    ELSE IF data = <<>> THEN [threw |-> TRUE, value |-> [panel |-> TRUE, content |-> <<>>]]
    ELSE IF TruthyString(data[1].Highlights)
         THEN [threw |-> FALSE,
               value |-> [panel |-> TRUE, content |-> <<SanitizeHtml(data[1].Highlights)>>]]
         ELSE [threw |-> FALSE, value |-> [panel |-> TRUE, content |-> <<>>]]

\* Inputs of a render pass: records that all resolve to a code and differ in
\* their Launch, Color and Highlights.
QuarterTwo2024 == <<81, 50, 32, 50, 48, 50, 52>>                     \* "Q2 2024"
Quarter2025Estimated == <<81, 49, 32, 50, 48, 50, 53, 32, 101, 115, 116>>  \* "Q1 2025 est"
GreenUpperCase == <<35, 48, 70, 48>>                                 \* "#0F0"
HighlightsText == <<60, 98, 62, 110, 101, 119, 60, 47, 98, 62>>      \* "<b>new</b>"

Year2025Estimated == <<50, 48, 50, 53, 32, 101, 115, 116>>            \* "2025 est"

LegendLaunchValues ==
    {Null, Year2024, Quarter2025, QuarterTwo2024, Quarter2025Estimated, Year2025Estimated}
LegendColorValues == {Null, Red, GreenUpperCase}
HighlightsValues == {Null, HighlightsText}

RenderRecords(m) ==
    {FacilityRecord(m, IF m = "usa" THEN Ohio ELSE France, l, c) :
        l \in LegendLaunchValues, c \in LegendColorValues}

WithHighlights(list, h) == [j \in DOMAIN list |-> [list[j] EXCEPT !.Highlights = h]]

RenderInit ==
    /\ pc = "render"
    /\ mode \in {"world", "regional", "usa"}
    /\ \E n \in 0..MaxRecords : \E list \in [1..n -> RenderRecords(mode)] :
           \E h \in HighlightsValues :
               mapData = WithHighlights(WithSelectionIds(list), h)
    /\ settings \in {[NoSettings EXCEPT !.viewHighlights = v] : v \in BOOLEAN}
    /\ distinctYears = <<>>
    /\ yearColorData = <<>>
    /\ colorData = NoColorData
    /\ NoRender
    /\ currentYear \in ClockYears
    /\ finalMapData = NoRecords
    /\ currentRegion = Null
    /\ events = <<>>
    /\ loads = <<>>
    /\ viewport = NoViewport
    /\ NoLayout
    /\ clicks = <<>>
    /\ error = "none"
    /\ dataView = [table |-> NoTable]
    /\ ti = 0
    /\ index = InitialIndex
    /\ i = 0
    /\ resultData = <<>>
    /\ hostCalls = <<>>

\* visual.ts:194: this.renderWorldMapLegend(mainContent, options)
WorldLegendStep ==
    /\ pc = "rendered"
    /\ mode = "world"
    /\ LET r == RenderWorldMapLegend(yearColorData)
       IN  /\ legend' = r.value
           /\ IF r.threw
              THEN /\ pc' = "threw"
                   /\ error' = "TypeError"
              ELSE /\ pc' = "legend"
                   /\ UNCHANGED error
    /\ UNCHANGED <<fills, highlights>>
    /\ UNCHANGED <<converterVars, classifierVars, updateVars, layoutVars, clicks>>

\* visual.ts:215: this.createHighlightsContainerElement(containerWrap, finalMapData)
HighlightsStep ==
    /\ pc = "rendered"
    /\ mode # "world"
    /\ LET r == CreateHighlightsContainerElement(mapData, settings)
       IN  /\ highlights' = r.value
           /\ IF r.threw
              THEN /\ pc' = "threw"
                   /\ error' = "TypeError"
              ELSE /\ pc' = "highlights"
                   /\ UNCHANGED error
    /\ UNCHANGED <<fills, legend>>
    /\ UNCHANGED <<converterVars, classifierVars, updateVars, layoutVars, clicks>>

\* visual.ts:217: this.renderRegionalMapLegend(mainContent, currentRegion)
RegionalLegendStep ==
    /\ pc = "highlights"
    /\ legend' = RenderRegionalMapLegend(yearColorData)
    /\ pc' = "legend"
    /\ UNCHANGED <<fills, highlights, error>>
    /\ UNCHANGED <<converterVars, classifierVars, updateVars, layoutVars, clicks>>

RenderNext ==
    \/ ClassifierNext
    \/ WorldLegendStep
    \/ HighlightsStep
    \/ RegionalLegendStep

RenderSpec == RenderInit /\ [][RenderNext]_vars

TwoTokens(y) == y # Null /\ Len(Split(y)) = 2
Swapped(y) == Split(y)[2] \o <<Space>> \o Split(y)[1]
WorldLegendShown == pc = "legend" /\ mode = "world"
RegionalLegendShown == pc = "legend" /\ mode # "world"

C18_RegionalLegendShowsLaunchAsStored ==
    RegionalLegendShown
    => /\ Len(legend) = Len(yearColorData)
       /\ \A j \in DOMAIN legend :
              yearColorData[j].Year # Null => legend[j].text = yearColorData[j].Year

C18_Witness ==
    /\ RegionalLegendShown
    /\ mode = "regional"
    /\ \E j \in DOMAIN legend :
           yearColorData[j].Year = Quarter2025 /\ legend[j].text = Quarter2025

FillsApplied == pc \in {"colors", "rendered", "highlights", "legend"}

----------------------------------------------------------------------------
(* update (visual.ts:121-220) and renderHeaderAndFooter (visual.ts:222-276) *)
(* up to the image loads they begin.                                       *)

\* visual.ts:132: mapData.slice(0, 1000)
SliceLimit == 1000
Slice(list) == SubSeq(list, 1, IF Len(list) < SliceLimit THEN Len(list) ELSE SliceLimit)

\* visual.ts:136-137
PreviousYear(year) == year - 1
FutureYear(year) == year + 8

\* visual.ts:139-141: for every year of the window in ascending order, the
\* records whose Launch is the year's decimal string, in list order.
RECURSIVE YearWindowFrom(_, _, _)
YearWindowFrom(records, year, last) ==
    IF year > last THEN <<>>
    ELSE SelectSeq(records, LAMBDA d : d.Launch = NumberToString(year))
             \o YearWindowFrom(records, year + 1, last)

\* Faulty variant: the records of the window are kept in row order.
YearWindowInRowOrder(records, year) ==
    SelectSeq(records, LAMBDA d :
        \E y \in PreviousYear(year)..FutureYear(year) : d.Launch = NumberToString(y))

YearWindow(records, year) ==
    YearWindowFrom(records, PreviousYear(year), FutureYear(year))

\* validDataUrl of the valid-data-url package, a service outside the
\* visual: a string of the form data:[<media type>][;base64],<data>.
DataScheme == <<100, 97, 116, 97, 58>>      \* "data:"
Comma == 44
ValidDataUrl(v) ==
    /\ v # Null
    /\ Len(v) > Len(DataScheme)
    /\ SubSeq(v, 1, Len(DataScheme)) = DataScheme
    /\ \E j \in DOMAIN v : v[j] = Comma

AutoHeight == [kind |-> "auto", px |-> 0]
PixelHeight(h) == [kind |-> "px", px |-> h]

\* visual.ts:246-250, 270-274: with the image setting off the element loses
\* its img children and its class, and its height becomes auto.
WithoutImage(element) == [class |-> FALSE, style |-> AutoHeight, imgs |-> <<>>]

\* An image load begun by `headerImage.src = ...`: the update call whose
\* callback it carries, the element the callback writes to, and what the
\* callback's closure holds; done and height are set when onload has run.
Load(call, target, src, vp) ==
    [call |-> call, target |-> target, src |-> src, viewport |-> vp,
     done |-> FALSE, height |-> 0]

\* Faulty variant: an image that is no data URL clears the element, as a
\* disabled setting does.
ImageHalfClearing(enabled, first, image, target, element, call, vp) ==
    IF ~enabled
    THEN [threw |-> FALSE, begun |-> <<>>, element |-> WithoutImage(element)]
    ELSE IF first = <<>>
    THEN [threw |-> TRUE, begun |-> <<>>, element |-> element]
    ELSE IF ValidDataUrl(image)
    THEN [threw |-> FALSE, begun |-> <<Load(call, target, image, vp)>>,
          element |-> element]
    ELSE [threw |-> FALSE, begun |-> <<>>, element |-> WithoutImage(element)]

\* visual.ts:229-274: one of the two halves of renderHeaderAndFooter, for
\* the image `image` of the first record; `first` is <<>> when the list is
\* empty, and globalFacility.HeaderImage then throws a TypeError.
ImageHalf(enabled, first, image, target, element, call, vp) ==
    IF ~enabled
    THEN [threw |-> FALSE, begun |-> <<>>, element |-> WithoutImage(element)]
    ELSE IF first = <<>>
    THEN [threw |-> TRUE, begun |-> <<>>, element |-> element]
    ELSE IF ValidDataUrl(image)
    THEN [threw |-> FALSE, begun |-> <<Load(call, target, image, vp)>>,
          element |-> element]
    ELSE [threw |-> FALSE, begun |-> <<>>, element |-> element]

\* visual.ts:222-276: the loads renderHeaderAndFooter begins and the header
\* and footer it leaves, header first; a throw in the header half leaves
\* the footer as it was.
RenderHeaderAndFooter(data, locations, head, foot, call, vp) ==
    LET first == IF data = <<>> THEN <<>> ELSE <<data[1]>>
        h == ImageHalf(locations.headerImage, first,
                       IF first = <<>> THEN Null ELSE first[1].HeaderImage,
                       "header", head, call, vp)
        f == ImageHalf(locations.footerImage, first,
                       IF first = <<>> THEN Null ELSE first[1].FooterImage,
                       "footer", foot, call, vp)
    IN  IF h.threw
        THEN [threw |-> TRUE, begun |-> <<>>, header |-> h.element, footer |-> foot]
        ELSE [threw |-> f.threw, begun |-> h.begun \o f.begun,
              header |-> h.element, footer |-> f.element]

\* The pictures the browser can decode, with their natural heights; a load
\* of anything else never completes.
HeaderPicture == <<100, 97, 116, 97, 58, 105, 109, 97, 103, 101, 47, 112, 110, 103,
                   59, 98, 97, 115, 101, 54, 52, 44, 65, 65>>  \* "data:image/png;base64,AA"
FooterPicture == <<100, 97, 116, 97, 58, 105, 109, 97, 103, 101, 47, 112, 110, 103,
                   59, 98, 97, 115, 101, 54, 52, 44, 66, 66>>  \* "data:image/png;base64,BB"
Pictures == {[src |-> HeaderPicture, height |-> 100], [src |-> FooterPicture, height |-> 60]}
IsPicture(src) == \E p \in Pictures : p.src = src
ImageHeight(src) == (CHOOSE p \in Pictures : p.src = src).height

\* layoutContentHeight of the renderHeaderAndFooter call `call`
\* (visual.ts:225): the heights its callbacks have added so far.
RECURSIVE SumHeights(_, _, _)
SumHeights(list, call, from) ==
    IF from > Len(list) THEN 0
    ELSE (IF list[from].call = call /\ list[from].done THEN list[from].height ELSE 0)
             + SumHeights(list, call, from + 1)

LayoutContentHeight(call) == SumHeights(loads, call, 1)

\* visual.ts:231-241, 255-265: what an onload callback leaves in the
\* element it writes to.
WithImage(element, height, src) ==
    [class |-> TRUE, style |-> PixelHeight(height), imgs |-> Append(element.imgs, src)]

\* Inputs of update: a table whose columns declare seven of the roles, and
\* rows that lack a region, a country and state, or a launch year of the
\* window.
UpdateColumns ==
    <<Column({"Region"}), Column({"State"}), Column({"Country"}), Column({"Launch"}),
      Column({"Color"}), Column({"Highlights"}), Column({"HeaderImage"})>>

SmallestDataUrl == <<100, 97, 116, 97, 58, 44>>   \* "data:,"
Year2034 == <<50, 48, 51, 52>>                    \* "2034", past the window of 2025
ImageFileName == <<120, 46, 112, 110, 103>>       \* "x.png"

UpdateRows ==
    {<<StrCell(Europe), StrCell(Ohio), StrCell(France), NumCell(2025),
       StrCell(Red), StrCell(HighlightsText), StrCell(SmallestDataUrl)>>,
     <<StrCell(USA), StrCell(Ohio), StrCell(France), StrCell(Year2024),
       StrCell(GreenUpperCase), NullCell, StrCell(ImageFileName)>>,
     <<NullCell, StrCell(Ohio), StrCell(France), StrCell(Year2024),
       StrCell(Red), NullCell, NullCell>>,
     <<StrCell(Europe), NullCell, NullCell, NumCell(2025),
       NullCell, NullCell, NullCell>>,
     <<StrCell(Europe), StrCell(Ohio), StrCell(France), NullCell,
       StrCell(Red), NullCell, NullCell>>,
     <<StrCell(Europe), StrCell(Ohio), StrCell(France), StrCell(Quarter2025),
       StrCell(Red), NullCell, NullCell>>,
     <<StrCell(Europe), StrCell(Ohio), StrCell(France), StrCell(Year2034),
       StrCell(Red), NullCell, NullCell>>}

UpdateTables ==
    {NoTable} \cup
    UNION {{[present |-> TRUE, columns |-> UpdateColumns, rows |-> rows] :
               rows \in [1..n -> UpdateRows]} : n \in 0..MaxRows}

Viewports == {[height |-> 600, width |-> 800]}

UpdateSettings ==
    [viewRegionalMap : BOOLEAN, defaultRegion : {USA, Europe},
     viewHighlights : BOOLEAN, headerImage : BOOLEAN, footerImage : BOOLEAN]

UpdateInit ==
    /\ pc = "update"
    /\ dataView \in {[table |-> t] : t \in UpdateTables}
    /\ settings \in UpdateSettings
    /\ currentYear \in ClockYears
    /\ finalMapData = NoRecords
    /\ currentRegion = Null
    /\ events = <<>>
    /\ loads = <<>>
    /\ viewport \in Viewports
    /\ NoLayout
    /\ clicks = <<>>
    /\ ti = 0
    /\ index = InitialIndex
    /\ i = 0
    /\ resultData = <<>>
    /\ hostCalls = <<>>
    /\ mode = "world"
    /\ mapData = NoRecords
    /\ distinctYears = <<>>
    /\ yearColorData = <<>>
    /\ colorData = NoColorData
    /\ NoRender
    /\ error = "none"

\* visual.ts:122-131: the rendering-started notification, the settings, the
\* cleared target, and the call of CONVERTER.
UpdateStart ==
    /\ pc = "update"
    /\ events' = Append(events, "renderingStarted")
    /\ updates' = updates + 1
    /\ targetStyle' = [set |-> TRUE, height |-> viewport.height, width |-> viewport.width]
    /\ legend' = <<>>
    /\ highlights' = NoHighlights
    /\ colorData' = NoColorData
    /\ fills' = NoFills
    /\ finalMapData' = NoRecords
    /\ currentRegion' = Null
    /\ mapData' = NoRecords
    /\ distinctYears' = <<>>
    /\ error' = "none"
    /\ pc' = "call"
    /\ UNCHANGED <<settings, currentYear, loads, viewport, mode, yearColorData>>
    /\ UNCHANGED <<header, footer, headerImgHeight, footerImgHeight, clicks>>
    /\ UNCHANGED converterVars

\* visual.ts:132-161: the first rows, the year window, and the context-menu
\* handler on the target.
UpdateFilter ==
    /\ pc = "returned"
    /\ finalMapData' = YearWindow(Slice(resultData), currentYear)
    /\ pc' = "headerFooter"
    /\ UNCHANGED <<settings, currentYear, currentRegion, events, loads, error>>
    /\ UNCHANGED <<converterVars, classifierVars, renderVars>>
    /\ UNCHANGED <<layoutVars, clicks>>

\* visual.ts:163: this.renderHeaderAndFooter(finalMapData, options)
RenderHeaderAndFooterStep ==
    /\ pc = "headerFooter"
    /\ LET r == RenderHeaderAndFooter(finalMapData, settings, header, footer,
                                      updates, viewport)
       IN  /\ loads' = loads \o r.begun
           /\ header' = r.header
           /\ footer' = r.footer
           /\ IF r.threw
              THEN /\ pc' = "threw"
                   /\ error' = "TypeError"
              ELSE /\ pc' = "main"
                   /\ UNCHANGED error
    /\ UNCHANGED <<settings, currentYear, finalMapData, currentRegion, events>>
    /\ UNCHANGED <<viewport, updates, headerImgHeight, footerImgHeight, targetStyle, clicks>>
    /\ UNCHANGED <<converterVars, classifierVars, renderVars>>

\* visual.ts:165-192: the main content and the choice of the view; the
\* world map is rendered from all records of the window.
MainContentStep ==
    /\ pc = "main"
    /\ IF ~settings.viewRegionalMap
       THEN /\ mapData' = finalMapData
            /\ mode' = "world"
            /\ pc' = "render"
       ELSE /\ pc' = "region"
            /\ UNCHANGED <<mapData, mode>>
    /\ UNCHANGED <<distinctYears, yearColorData, colorData, error>>
    /\ UNCHANGED <<converterVars, renderVars, updateVars, layoutVars, clicks>>

\* visual.ts:219: the rendering-finished notification.
UpdateFinish ==
    /\ pc = "legend"
    /\ events' = Append(events, "renderingFinished")
    /\ pc' = "finished"
    /\ UNCHANGED <<settings, currentYear, finalMapData, currentRegion, loads, error>>
    /\ UNCHANGED <<converterVars, classifierVars, renderVars>>
    /\ UNCHANGED <<layoutVars, clicks>>

UpdateNext ==
    \/ UpdateStart
    \/ ConverterNext
    \/ UpdateFilter
    \/ RenderHeaderAndFooterStep
    \/ MainContentStep
    \/ RegionNext
    \/ RenderNext
    \/ UpdateFinish

UpdateSpec == UpdateInit /\ [][UpdateNext]_vars

\* C20 (as claimed): an update call whose data view has a table returns
\* without throwing, whatever the rows and the settings, so that its
\* renderingStarted notification is followed by renderingFinished.
C20_UpdateNeverThrows ==
    (dataView.table.present /\ pc \in {"finished", "threw"})
    => /\ pc = "finished"
       /\ events = <<"renderingStarted", "renderingFinished">>

----------------------------------------------------------------------------
(* Failure behaviour of CONVERTER.                                         *)

\* C21: when the data view carries no table, CONVERTER fails at once: it
\* throws before any record is built, returns no record list, and asks the
\* host for no selection identifier.
C21_AbsentTableFailsAtOnce ==
    (~Table.present /\ pc # "call")
    => /\ pc = "threw"
       /\ error = "TypeError"
       /\ resultData = <<>>
       /\ hostCalls = <<>>

C21_Witness ==
    /\ ~Table.present
    /\ pc = "threw"
    /\ hostCalls = <<>>

\* C22 (as claimed): for a present table CONVERTER never throws because of
\* its columns: with columns that declare no role, or that carry no role
\* set at all, it returns, and the fields of the roles no column declares
\* are null.
C22_MalformedColumnsNeverThrow ==
    (Table.present /\ pc \in {"returned", "threw"})
    => /\ pc = "returned"
       /\ \A r \in Roles :
              (\A k \in ColumnIndexes : ~Declares(k, r))
              => \A j \in DOMAIN resultData : resultData[j][r] = Null

----------------------------------------------------------------------------
(* A session of the visual: the host calls update again and again, and the *)
(* image loads complete between the calls (visual.ts:121-276).             *)

MaxUpdates == 2

\* The host calls update with new options once the previous call is over.
HostUpdate(tables, locations, viewports) ==
    /\ pc \in {"finished", "threw"}
    /\ updates < MaxUpdates
    /\ dataView' \in {[table |-> t] : t \in tables}
    /\ settings' \in locations
    /\ viewport' \in viewports
    /\ pc' = "update"
    /\ UNCHANGED <<ti, index, i, resultData, hostCalls>>
    /\ UNCHANGED <<classifierVars, renderVars>>
    /\ UNCHANGED <<currentYear, finalMapData, currentRegion, events, loads, error>>
    /\ UNCHANGED <<updates, header, footer, headerImgHeight, footerImgHeight, targetStyle,
                   clicks>>

\* What an onload callback does (visual.ts:231-241, 255-265): height is the
\* loaded picture's height, style the target's style it writes.
OnLoadEffect(k) ==
    LET l == loads[k]
        height == ImageHeight(l.src)
        style == [set |-> TRUE,
                  height |-> l.viewport.height - (LayoutContentHeight(l.call) + height),
                  width |-> l.viewport.width]
    IN  /\ loads' = [loads EXCEPT ![k].done = TRUE, ![k].height = height]
        /\ targetStyle' = style
        /\ IF l.target = "header"
           THEN /\ headerImgHeight' = height
                /\ header' = WithImage(header, height, l.src)
                /\ UNCHANGED <<footerImgHeight, footer>>
           ELSE /\ footerImgHeight' = height
                /\ footer' = WithImage(footer, height, l.src)
                /\ UNCHANGED <<headerImgHeight, header>>
        /\ UNCHANGED <<pc, error, viewport, updates, clicks>>
        /\ UNCHANGED <<settings, currentYear, finalMapData, currentRegion, events>>
        /\ UNCHANGED <<converterVars, classifierVars, renderVars>>

\* Faulty variant: only the callbacks of the latest update call still run.
OnLoadOfLatestUpdate(k) ==
    /\ pc \in {"finished", "threw"}
    /\ ~loads[k].done
    /\ IsPicture(loads[k].src)
    /\ loads[k].call = updates
    /\ OnLoadEffect(k)

\* The picture of load k has been decoded and its onload callback runs, as
\* a task of its own between two calls of the host.
OnLoad(k) ==
    /\ pc \in {"finished", "threw"}
    /\ ~loads[k].done
    /\ IsPicture(loads[k].src)
    /\ OnLoadEffect(k)

ImageLoaded == \E k \in DOMAIN loads : OnLoad(k)

\* Inputs of a session in the world view: one-row tables whose images are
\* two pictures, or a file name and nothing.
ImageColumns ==
    <<Column({"Country"}), Column({"Launch"}), Column({"HeaderImage"}),
      Column({"FooterImage"})>>

ImageTables ==
    {[present |-> TRUE, columns |-> ImageColumns, rows |-> <<row>>] :
        row \in {<<StrCell(France), NumCell(2025), StrCell(HeaderPicture),
                   StrCell(FooterPicture)>>,
                 <<StrCell(France), NumCell(2025), StrCell(ImageFileName), NullCell>>}}

ImageSettings ==
    {[NoSettings EXCEPT !.headerImage = h, !.footerImage = f] : h, f \in BOOLEAN}

ImageViewports == {[height |-> 600, width |-> 800], [height |-> 400, width |-> 700]}

ImageInit ==
    /\ pc = "update"
    /\ dataView \in {[table |-> t] : t \in ImageTables}
    /\ settings \in ImageSettings
    /\ viewport \in ImageViewports
    /\ currentYear \in ClockYears
    /\ finalMapData = NoRecords
    /\ currentRegion = Null
    /\ events = <<>>
    /\ loads = <<>>
    /\ NoLayout
    /\ clicks = <<>>
    /\ ti = 0
    /\ index = InitialIndex
    /\ i = 0
    /\ resultData = <<>>
    /\ hostCalls = <<>>
    /\ mode = "world"
    /\ mapData = NoRecords
    /\ distinctYears = <<>>
    /\ yearColorData = <<>>
    /\ colorData = NoColorData
    /\ NoRender
    /\ error = "none"

ImageHostUpdate == HostUpdate(ImageTables, ImageSettings, ImageViewports)

ImageNext ==
    \/ ImageHostUpdate
    \/ UpdateStart
    \/ ConverterNext
    \/ UpdateFilter
    \/ RenderHeaderAndFooterStep
    \/ MainContentStep
    \/ DistinctYearsStep
    \/ YearColorDataStep
    \/ DatamapColorDataStep
    \/ WorldLegendStep
    \/ UpdateFinish
    \/ ImageLoaded

ImageSpec == ImageInit /\ [][ImageNext]_vars

----------------------------------------------------------------------------
(* Header and footer over a session (visual.ts:222-276).                   *)

LoadsOf(target) == {k \in DOMAIN loads : loads[k].target = target}
LoadsOfCall(call, target) == {k \in LoadsOf(target) : loads[k].call = call}
AllLoadsCompleted == \A k \in DOMAIN loads : loads[k].done
ElementOf(target) == IF target = "header" THEN header ELSE footer
ImgHeightOf(target) == IF target = "header" THEN headerImgHeight ELSE footerImgHeight
SettingOf(target) == IF target = "header" THEN settings.headerImage ELSE settings.footerImage
FirstImage(target) ==
    IF target = "header" THEN finalMapData[1].HeaderImage ELSE finalMapData[1].FooterImage
ImageTargets == {"header", "footer"}

\* C23: after updates that all had the header (footer) image setting
\* enabled, and once every load has completed, the header (footer) element
\* holds at most one img, the one of the latest update.
C23_AtMostOneImgAfterUpdates ==
    \A target \in ImageTargets :
        (/\ pc = "finished"
         /\ AllLoadsCompleted
         /\ \A call \in 1..updates : LoadsOfCall(call, target) # {})
        => /\ Len(ElementOf(target).imgs) <= 1
           /\ \A n \in DOMAIN ElementOf(target).imgs :
                  ElementOf(target).imgs[n] = FirstImage(target)

\* C24: a pending callback of a decodable picture can always run between
\* two calls, whatever update came after the one that registered it, and
\* when it runs it writes the image height, the target's style from the
\* viewport of its own update call, and one more img in its element.
C24_LateCallbackStillWrites ==
    /\ [](\A k \in DOMAIN loads :
            (pc \in {"finished", "threw"} /\ ~loads[k].done /\ IsPicture(loads[k].src))
            => ENABLED OnLoad(k))
    /\ [][\A k \in DOMAIN loads :
            (~loads[k].done /\ k \in DOMAIN loads' /\ loads'[k].done)
            => LET l == loads[k]
                   height == ImageHeight(l.src)
               IN  /\ ImgHeightOf(l.target)' = height
                   /\ targetStyle' =
                        [set |-> TRUE,
                         height |-> l.viewport.height
                                    - (LayoutContentHeight(l.call) + height),
                         width |-> l.viewport.width]
                   /\ ElementOf(l.target)' =
                        [class |-> TRUE, style |-> PixelHeight(height),
                         imgs |-> Append(ElementOf(l.target).imgs, l.src)]]_vars

\* A callback of the first update has run after the second update, which
\* had the header image disabled and another viewport: the img is back and
\* the target has the style of the first viewport.
C24_Witness ==
    /\ pc = "finished"
    /\ updates = 2
    /\ ~settings.headerImage
    /\ header.imgs # <<>>
    /\ \E k \in LoadsOfCall(1, "header") :
          /\ loads[k].done
          /\ loads[k].viewport # viewport
          /\ targetStyle.width = loads[k].viewport.width
          /\ headerImgHeight = loads[k].height

\* C25: with the image setting enabled and a first record whose image is no
\* valid data URL, renderHeaderAndFooter begins no load for that element,
\* so that no callback of this call can run for it, and leaves the image
\* height, the target's style and the element as they were.
C25_InvalidImageStartsNoLoad ==
    [][\A target \in ImageTargets :
        (/\ pc = "headerFooter"
         /\ pc' = "main"
         /\ SettingOf(target)
         /\ ~ValidDataUrl(FirstImage(target)))
        => /\ {k \in DOMAIN loads' : loads'[k].target = target
                                     /\ loads'[k].call = updates} = {}
           /\ ImgHeightOf(target)' = ImgHeightOf(target)
           /\ targetStyle' = targetStyle
           /\ ElementOf(target)' = ElementOf(target)]_vars

\* The second update had the header image enabled and a file name for an
\* image: the header still shows the picture of the first update.
C25_Witness ==
    /\ pc = "finished"
    /\ updates = 2
    /\ settings.headerImage
    /\ ~ValidDataUrl(FirstImage("header"))
    /\ LoadsOfCall(2, "header") = {}
    /\ header.imgs = <<HeaderPicture>>
    /\ headerImgHeight = ImageHeight(HeaderPicture)

----------------------------------------------------------------------------
(* A session of updates that alternate between the world map and the      *)
(* regional maps (visual.ts:180-218).                                      *)

SessionColumns ==
    <<Column({"Region"}), Column({"State"}), Column({"Country"}), Column({"Launch"}),
      Column({"Color"})>>

SessionTables ==
    {[present |-> TRUE, columns |-> SessionColumns, rows |-> rows] :
        rows \in {<<<<StrCell(Europe), NullCell, StrCell(France), StrCell(Year2025),
                      StrCell(Red)>>>>,
                  <<<<StrCell(Europe), NullCell, StrCell(France), StrCell(Year2025),
                      StrCell(Red)>>,
                    <<StrCell(Asia), NullCell, StrCell(Germany), StrCell(Year2024),
                      StrCell(GreenUpperCase)>>>>,
                  <<<<StrCell(USA), StrCell(Ohio), StrCell(France), StrCell(Year2024),
                      StrCell(GreenUpperCase)>>>>}}

SessionSettings ==
    {[NoSettings EXCEPT !.viewRegionalMap = v, !.defaultRegion = r] :
        v \in BOOLEAN, r \in {USA, Europe}}

SessionInit ==
    /\ pc = "update"
    /\ dataView \in {[table |-> t] : t \in SessionTables}
    /\ settings \in SessionSettings
    /\ viewport \in Viewports
    /\ currentYear \in ClockYears
    /\ finalMapData = NoRecords
    /\ currentRegion = Null
    /\ events = <<>>
    /\ loads = <<>>
    /\ NoLayout
    /\ clicks = <<>>
    /\ ti = 0
    /\ index = InitialIndex
    /\ i = 0
    /\ resultData = <<>>
    /\ hostCalls = <<>>
    /\ mode = "world"
    /\ mapData = NoRecords
    /\ distinctYears = <<>>
    /\ yearColorData = <<>>
    /\ colorData = NoColorData
    /\ NoRender
    /\ error = "none"

SessionHostUpdate == HostUpdate(SessionTables, SessionSettings, Viewports)

SessionNext ==
    \/ SessionHostUpdate
    \/ UpdateStart
    \/ ConverterNext
    \/ UpdateFilter
    \/ RenderHeaderAndFooterStep
    \/ MainContentStep
    \/ RegionNext
    \/ RenderNext
    \/ UpdateFinish

SessionSpec == SessionInit /\ [][SessionNext]_vars

\* The records in scope of the running update: the records of its year
\* window on the world map, their partition by region on a regional map.
InScopeRecords ==
    LET window == YearWindow(Slice(resultData), currentYear)
    IN  IF ~settings.viewRegionalMap THEN window
        ELSE PartitionByRegion(window, currentRegion)

YearColorDataInUse == pc \in {"colors", "rendered", "highlights", "legend", "finished"}
ColorMapBuilt == pc \in {"rendered", "highlights", "legend", "finished"}
LegendBuilt == pc \in {"legend", "finished"}

\* C26: in every update of a session, whatever the views of the updates
\* before it, the year-colour list behind the fills, the colour map and the
\* legend is the one computed in this update from the records in scope.
C26_YearColorDataIsOfThisUpdate ==
    YearColorDataInUse
    => /\ mode = "world" <=> ~settings.viewRegionalMap
       /\ mapData = InScopeRecords
       /\ distinctYears \in (IF mode = "world" THEN {GetDistinctYears(InScopeRecords)}
                                              ELSE RegionalDistinctYears(InScopeRecords))
       /\ yearColorData = GetYearColorData(InScopeRecords, distinctYears).value
       /\ fills = ApplyFills(GetDefaultFills, yearColorData)
       /\ ColorMapBuilt =>
            colorData = IF mode = "usa"
                        THEN GetDatamapColorDataFromUSA(InScopeRecords, yearColorData).value
                        ELSE GetDatamapColorData(InScopeRecords, yearColorData).value
       /\ LegendBuilt =>
            legend = IF mode = "world"
                     THEN RenderWorldMapLegend(yearColorData).value
                     ELSE RenderRegionalMapLegend(yearColorData)

\* The second update of a session shows another view than the first and
\* other records, and its legend is on screen.
C26_Witness ==
    /\ pc = "finished"
    /\ updates = 2
    /\ mode # "world"
    /\ Len(events) = 4
    /\ \E j \in DOMAIN yearColorData : yearColorData[j].Year = Year2024
    /\ legend # <<>>

----------------------------------------------------------------------------
(* The order of the year-colour entries (visual.ts:465-467, 720-721).      *)

IsDigit(c) == c >= 48 /\ c <= 57

\* The digits a Launch value begins with, up to its first other character.
RECURSIVE LeadingDigits(_)
LeadingDigits(v) ==
    IF v = <<>> \/ ~IsDigit(v[1]) THEN <<>> ELSE <<v[1]>> \o LeadingDigits(Tail(v))

\* A Launch value that is a year, alone or with a token appended.
BeginsWithYear(v) == v # Null /\ LeadingDigits(v) # <<>>
YearOf(v) == DigitsValue(LeadingDigits(v))
HasAppendedToken(v) == BeginsWithYear(v) /\ Len(LeadingDigits(v)) < Len(v)

YearColorsListed == pc \in {"colors", "rendered", "highlights", "legend"}

----------------------------------------------------------------------------
(* Clicks on the shapes of a map (visual.ts:548-558, 702-713): the handler *)
(* the done callback of the map registers on every shape.                  *)

MaxClicks == 1

\* countryCodes.find(v => v.code.toLowerCase() === geography.id.toLowerCase()):
\* position of the first table entry with the shape's code, 0 if none.
RECURSIVE FindByCodeFrom(_, _, _)
FindByCodeFrom(codes, id, from) ==
    IF from > Len(codes) THEN 0
    ELSE IF Len(codes[from]) = Len(id) /\ ToLowerCase(codes[from]) = ToLowerCase(id)
    THEN from
    ELSE FindByCodeFrom(codes, id, from + 1)

\* Faulty variant: the record is looked up as the colour map resolves it,
\* whatever the letter case.
RECURSIVE FindDocumentAnyCaseFrom(_, _, _)
FindDocumentAnyCaseFrom(geo, name, from) ==
    IF from > Len(geo) THEN 0
    ELSE IF geo[from] # Null /\ NameMatches(name, geo[from]) THEN from
    ELSE FindDocumentAnyCaseFrom(geo, name, from + 1)
FindDocumentAnyCase(geo, name) == FindDocumentAnyCaseFrom(geo, name, 1)

\* mapData.find(v => v.Country === country.country) (v.State === state.state):
\* position of the first record of that name, 0 if none.
RECURSIVE FindDocumentFrom(_, _, _)
FindDocumentFrom(geo, name, from) ==
    IF from > Len(geo) THEN 0
    ELSE IF geo[from] = name THEN from
    ELSE FindDocumentFrom(geo, name, from + 1)
FindDocument(geo, name) == FindDocumentFrom(geo, name, 1)

\* The click handler on the shape `id`: the URL it hands to host.launchUrl,
\* <<>> when it launches nothing.
ClickHandler(data, geo, names, codes, id) ==
    LET c == FindByCodeFrom(codes, id, 1)
    IN  IF c = 0 \/ ~TruthyString(names[c]) THEN <<>>
        ELSE LET d == FindDocument(geo, names[c])
             IN  IF d = 0 \/ ~TruthyString(data[d].DocumentLink) THEN <<>>
                 ELSE <<data[d].DocumentLink>>

WorldClickHandler(data, id) ==
    ClickHandler(data, [j \in DOMAIN data |-> data[j].Country], CountryNames,
                 [j \in DOMAIN CountryCodes |-> CountryCodes[j].code], id)

USAClickHandler(data, id) ==
    ClickHandler(data, [j \in DOMAIN data |-> data[j].State], StateNames,
                 [j \in DOMAIN USAStateCodes |-> USAStateCodes[j].code], id)

\* Inputs of the clicks: shapes of the map, one of them in no table, and
\* records with a document link.
Texas == <<84, 101, 120, 97, 115>>                        \* "Texas"
CodeFRA == <<70, 82, 65>>                                 \* "FRA"
CodeATA == <<65, 84, 65>>                                 \* "ATA"
CodeTX == <<84, 88>>                                      \* "TX"
CodePR == <<80, 82>>                                      \* "PR"
LinkA == <<104, 116, 116, 112, 58, 47, 47, 97>>           \* "http://a"
LinkB == <<104, 116, 116, 112, 58, 47, 47, 98>>           \* "http://b"

GeographyIds(m) == IF m = "usa" THEN {CodeTX, CodePR} ELSE {CodeFRA, CodeATA}
ClickNames(m) == IF m = "usa" THEN {Texas, TexasMixedCase} ELSE {France, FranceMixedCase}

ClickRecords(m) ==
    {[FacilityRecord(m, g, l, c) EXCEPT !.DocumentLink = d] :
        g \in ClickNames(m), l \in {Year2025}, c \in {Null, Red},
        d \in {Null, LinkA, LinkB}}

ClickInit ==
    /\ pc = "render"
    /\ mode \in {"world", "usa"}
    /\ \E n \in 0..MaxRecords : \E list \in [1..n -> ClickRecords(mode)] :
           mapData = WithSelectionIds(list)
    /\ distinctYears = <<>>
    /\ yearColorData = <<>>
    /\ colorData = NoColorData
    /\ NoRender
    /\ NoUpdate
    /\ error = "none"
    /\ dataView = [table |-> NoTable]
    /\ ti = 0
    /\ index = InitialIndex
    /\ i = 0
    /\ resultData = <<>>
    /\ hostCalls = <<>>

\* A click on a shape of the map that has been rendered.
MapClick ==
    /\ pc = "rendered"
    /\ Len(clicks) < MaxClicks
    /\ \E id \in GeographyIds(mode) :
           clicks' = Append(clicks,
                            [id |-> id,
                             launched |-> IF mode = "usa"
                                          THEN USAClickHandler(mapData, id)
                                          ELSE WorldClickHandler(mapData, id)])
    /\ UNCHANGED <<pc, error>>
    /\ UNCHANGED <<converterVars, classifierVars, renderVars, updateVars, layoutVars>>

ClickNext ==
    \/ ClassifierNext
    \/ MapClick

ClickSpec == ClickInit /\ [][ClickNext]_vars

----------------------------------------------------------------------------
(* Claims about the clicks, checked under ClickSpec.                       *)

GeoName(k) == IF mode = "usa" THEN mapData[k].State ELSE mapData[k].Country

\* The name the table of the rendered map has for the shape `id`, <<>> when
\* the shape is in no entry of the table.
TableName(id) ==
    LET codes == IF mode = "usa"
                 THEN [j \in DOMAIN USAStateCodes |-> USAStateCodes[j].code]
                 ELSE [j \in DOMAIN CountryCodes |-> CountryCodes[j].code]
        E == {e \in DOMAIN codes : codes[e] = id}
    IN  IF E = {} THEN <<>>
        ELSE IF mode = "usa" THEN StateNames[SetMin(E)] ELSE CountryNames[SetMin(E)]

\* C28: a click launches a URL only on a shape whose code is a key of the
\* geo colour map, and the URL is then the non-null DocumentLink of a
\* record; a click on a shape with the default fill launches nothing.
C28_OnlyColouredShapesLaunch ==
    \A n \in DOMAIN clicks :
        clicks[n].launched # <<>>
        => /\ clicks[n].id \in DOMAIN colorData
           /\ clicks[n].launched[1] # Null

\* C30: the colour-map entry of a code is the cohort colour and the
\* selection id of the last record that resolves to the code, and a click
\* on the shape launches the DocumentLink of the first record whose Country
\* (State on the USA map) is exactly the table's name for the code, if it
\* has one; records that match the name in another letter case only are
\* not found by the click.
C30_LastRecordColoursFirstExactLaunches ==
    pc = "rendered"
    => /\ \A code \in DOMAIN colorData :
              LET last == SetMax({k \in DOMAIN mapData : ResolvedCode(k) = code})
              IN  colorData[code] = [fillKey |-> CohortColor(last),
                                     selectionId |-> mapData[last].selectionId]
       /\ \A n \in DOMAIN clicks :
              LET exact == {k \in DOMAIN mapData : GeoName(k) = TableName(clicks[n].id)}
              IN  clicks[n].launched =
                     IF exact = {} \/ mapData[SetMin(exact)].DocumentLink = Null
                     THEN <<>>
                     ELSE <<mapData[SetMin(exact)].DocumentLink>>

\* Two records of France, the second one in another letter case: the shape
\* has the selection id of the second, a click launches the link of the
\* first.
C30_Witness ==
    /\ pc = "rendered"
    /\ mode = "world"
    /\ Len(mapData) = 2
    /\ mapData[1].Country = France
    /\ mapData[1].DocumentLink = LinkA
    /\ mapData[2].Country = FranceMixedCase
    /\ mapData[2].DocumentLink = LinkB
    /\ CodeFRA \in DOMAIN colorData
    /\ colorData[CodeFRA].selectionId = mapData[2].selectionId
    /\ clicks = <<[id |-> CodeFRA, launched |-> <<LinkA>>]>>

----------------------------------------------------------------------------
(* The year window of update (visual.ts:131-141).                          *)

\* The year a Launch value is the decimal string of, within the window of
\* the clock's year; 0 for every other value.
WindowYearOf(launch) ==
    LET years == {y \in (currentYear - 1)..(currentYear + 8) : launch = NumberToString(y)}
    IN  IF years = {} THEN 0 ELSE SetMin(years)

\* The rows of the decoded table that the window keeps.
WindowRows ==
    {j \in DOMAIN resultData : j <= SliceLimit /\ WindowYearOf(resultData[j].Launch) # 0}
WindowRecords == {resultData[j] : j \in WindowRows}
RowOf(d) == CHOOSE j \in DOMAIN resultData : resultData[j] = d

WindowInUse == pc \in {"headerFooter", "main", "region", "partition"}

====
